---- MODULE Spec2Model ----
(***************************************************************************)
(* rnet: the socket layer of raylib (src/unnamed/part_000).                *)
(*                                                                         *)
(* The model keeps the fields of every Socket, the status of every        *)
(* SocketResult, the thread's error slot (errno) and the descriptor table  *)
(* of the native layer.  Socket addresses are byte sequences laid out as   *)
(* struct sockaddr_in / sockaddr_in6, so that a memcpy is a copy of bytes. *)
(* One action models one call of the API, native calls included; the       *)
(* outcomes of the native calls are the inputs of the action.              *)
(***************************************************************************)
EXTENDS Integers, Sequences, FiniteSets, TLC

VARIABLES
    sockets,   \* SockIds -> Socket (struct Socket, with an "alloc" mark)
    rstatus,   \* ResIds -> status of the SocketResult owning socket r
    created,   \* ResIds -> "none", or how SocketCreate on the result ended
    configs,   \* ResIds -> the caller's SocketConfig for the result
    lasterr,   \* the platform error slot (errno / WSAGetLastError)
    fds,       \* the native descriptor table
    last,      \* the call that ran last: arguments, return value, native calls
    nops,      \* number of API calls made so far
    io,        \* per Socket: the bytes Send reported sent, the bytes Receive returned
    binding,   \* SockIds -> the UDP channel table of the Socket (Socket.binding)
    set        \* the SocketSet of the caller

vars == <<sockets, rstatus, created, configs, lasterr, fds, last, nops, io,
          binding, set>>

----------------------------------------------------------------------------
(* Bounds of the model *)

\* API calls in one behaviour
MaxOps == 3
\* candidates getaddrinfo returns for a host name
MaxCands == 2
\* entries of SocketConfig.sockopts (SOCKET_MAX_SOCK_OPTS of rnet.h)
MaxSockOpts == 2
\* sockets that can be allocated besides the two results' own
MaxAccepted == 1
\* native descriptors available after stdin, stdout, stderr
MaxFds == 3
\* logical channels of a Socket and addresses of a channel: the capacities
\* SOCKET_MAX_UDPCHANNELS and SOCKET_MAX_UDPADDRESSES of rnet.h, kept small
SOCKET_MAX_UDPCHANNELS == 2
SOCKET_MAX_UDPADDRESSES == 2

----------------------------------------------------------------------------
(* Platform values *)

INVALID_SOCKET == -1
AF_UNSPEC == 0
AF_INET == 2
AF_INET6 == 10
WSAEWOULDBLOCK == 11
WSAEINTR == 4
\* error codes of the native layer that the code does not single out
PlatformError ==
    [EBADF |-> 9, EINVAL |-> 22, EMFILE |-> 24, EOPNOTSUPP |-> 95,
     EAFNOSUPPORT |-> 97, EADDRINUSE |-> 98, ECONNRESET |-> 104,
     ENOTCONN |-> 107, ECONNREFUSED |-> 111]

SOCKET_TCP == "SOCKET_TCP"
SOCKET_UDP == "SOCKET_UDP"
RESULT_SUCCESS == "RESULT_SUCCESS"
RESULT_FAILURE == "RESULT_FAILURE"
\* a field left at zero by memset whose enumerator name the sources do not give
ZEROED == "zeroed"
NULL == <<>>

ResIds == {1, 2}
SockIds == 1 .. (2 + MaxAccepted)
Fds == 3 .. (2 + MaxFds)

----------------------------------------------------------------------------
(* Bytes: struct sockaddr_in (16 bytes) and struct sockaddr_in6 (28 bytes) *)

Zeros(n) == [i \in 1 .. n |-> 0]

\* htons: a 16-bit value as its two bytes in network order
Htons(v) == <<(v \div 256) % 256, v % 256>>
\* ntohs of two bytes in network order
Ntohs(b) == b[1] * 256 + b[2]
\* sa_family is kept in host order (little endian)
FamilyBytes(f) == <<f % 256, f \div 256>>

SockaddrIn(host, port) == FamilyBytes(AF_INET) \o Htons(port) \o host \o Zeros(8)
SockaddrIn6(host, port) ==
    FamilyBytes(AF_INET6) \o Htons(port) \o Zeros(4) \o host \o Zeros(4)

SizeofSockaddrIn == Len(SockaddrIn(Zeros(4), 0))
SizeofSockaddrIn6 == Len(SockaddrIn6(Zeros(16), 0))

ss_family(sa) == sa[1] + 256 * sa[2]
\* GetSocketPortPtr: the two bytes of sin_port / sin6_port (same offset)
GetSocketPortPtr(sa) == SubSeq(sa, 3, 4)
\* GetSocketAddressPtr: the bytes of sin_addr / sin6_addr
GetSocketAddressPtr(sa) ==
    IF ss_family(sa) = AF_INET THEN SubSeq(sa, 5, 8) ELSE SubSeq(sa, 9, 24)

\* memcpy(dst, (char *) src + off, n): n bytes of src from offset off; the bytes
\* read past the end of src are indeterminate, given here by junk
Memcpy(src, off, n, junk) ==
    [i \in 1 .. n |-> IF off + i <= Len(src) THEN src[off + i] ELSE junk]

\* the first Len(new) bytes of old overwritten by new (getsockname into a buffer)
Overwrite(old, new) ==
    [i \in 1 .. Len(old) |-> IF i <= Len(new) THEN new[i] ELSE old[i]]

\* values an indeterminate byte is given in the model
JunkBytes == {0, 165}

----------------------------------------------------------------------------
(* Hosts and ports of the configurations *)

Loopback4 == <<127, 0, 0, 1>>
Loopback6 == Zeros(15) \o <<1>>

Hosts == {"127.0.0.1", "::1", "localhost"}
PortStrings == {"0", "8080"}

\* inet_pton(AF_INET, ip, ..): the address bytes, or NULL when ip is no literal
InetPton4(ip) == IF ip = "127.0.0.1" THEN Loopback4 ELSE NULL
InetPton6(ip) == IF ip = "::1" THEN Loopback6 ELSE NULL

IsIPv4Address(ip) == InetPton4(ip) # NULL
IsIPv6Address(ip) == InetPton6(ip) # NULL

\* strtoul(port, NULL, 0)
Strtoul(s) == IF s = "8080" THEN 8080 ELSE 0

\* the port the native layer picks for a bind to port 0
EphemeralPort == 49152

----------------------------------------------------------------------------
(* State after construction *)

\* AllocSocket: a Socket with every field zero
ZeroSocket ==
    [alloc |-> TRUE, channel |-> 0, type |-> ZEROED, isServer |-> FALSE,
     isIPv6 |-> FALSE, addripv4 |-> NULL, addripv6 |-> NULL, ready |-> 0,
     status |-> 0]

\* a Socket id no AllocSocket has returned yet
NoSocket == [ZeroSocket EXCEPT !.alloc = FALSE]

\* an IPAddress of all zero bytes
ZeroAddress == [host |-> 0, port |-> 0]

\* a struct UDPChannel of all zero bytes; the index SOCKET_MAX_UDPADDRESSES of
\* address stands for the memory that follows the array
ZeroChannel ==
    [numbound |-> 0,
     address |-> [i \in 0 .. SOCKET_MAX_UDPADDRESSES |-> ZeroAddress]]

\* Socket.binding after the memset of AllocSocket
ZeroBinding == [c \in 0 .. (SOCKET_MAX_UDPCHANNELS - 1) |-> ZeroChannel]

\* no SocketSet allocated yet
NoSet == [alloc |-> FALSE, numsockets |-> 0, maxsockets |-> 0, sockets |-> <<>>]

ClosedFd ==
    [open |-> FALSE, family |-> AF_UNSPEC, socktype |-> ZEROED, nonblock |-> FALSE,
     bound |-> NULL, listening |-> FALSE, connected |-> FALSE,
     peer |-> 0, rx |-> <<>>, dest |-> NULL]

NoCfg ==
    [host |-> "", port |-> "", type |-> ZEROED, server |-> FALSE,
     nonblocking |-> FALSE, backlog_size |-> 0, sockopts |-> <<>>]

NoCall == [op |-> "none", r |-> 0, cfg |-> NoCfg, ok |-> FALSE, val |-> 0,
           calls |-> <<>>, cands |-> <<>>, buf |-> <<>>]

\* two results from AllocSocketResult, nothing else allocated, nothing open
\* no SocketSend is inside its TCP loop: pc is where the call stands, s and
\* data its arguments, sent, left and length its locals, intr the native
\* calls of it that were interrupted, calls the native call it made last and
\* odd whether it has made an odd number of them
NoLoop ==
    [pc |-> "idle", s |-> 0, data |-> <<>>, intr |-> 0, sent |-> 0, left |-> 0,
     length |-> 0, calls |-> <<>>, odd |-> FALSE]

Init ==
    /\ sockets = [s \in SockIds |-> IF s \in ResIds THEN ZeroSocket ELSE NoSocket]
    /\ rstatus = [r \in ResIds |-> ZEROED]
    /\ created = [r \in ResIds |-> "none"]
    /\ configs = [r \in ResIds |-> NoCfg]
    /\ lasterr = 0
    /\ fds = [fd \in Fds |-> ClosedFd]
    /\ last = NoCall
    /\ nops = 0
    /\ io = [sent |-> [s \in SockIds |-> <<>>], recvd |-> [s \in SockIds |-> <<>>],
             loop |-> NoLoop]
    /\ binding = [s \in SockIds |-> ZeroBinding]
    /\ set = NoSet

IsSocketValid(sock) == sock.channel # INVALID_SOCKET

\* a native call as the log of an operation keeps it: the function, the
\* descriptor, an argument, the return value and the error it left (0: none)
Call(fn, fd, arg, ret, err) ==
    [fn |-> fn, fd |-> fd, arg |-> arg, ret |-> ret, err |-> err]

----------------------------------------------------------------------------
(* Configuration *)

SOCKET_MAX_QUEUE_SIZE == 16

SocketSetDefaults(config) ==
    IF config.backlog_size = 0
    THEN [config EXCEPT !.backlog_size = SOCKET_MAX_QUEUE_SIZE]
    ELSE config

\* the hints CreateSocket passes to getaddrinfo; ai_flags is a set of flag names
SocketSetHints(config) ==
    LET fam == IF IsIPv4Address(config.host) THEN AF_INET
               ELSE IF IsIPv6Address(config.host) THEN AF_INET6
               ELSE AF_UNSPEC
        numeric == IF fam = AF_UNSPEC THEN {} ELSE {"AI_NUMERICHOST"}
        stype == IF config.type = SOCKET_UDP THEN "SOCK_DGRAM" ELSE "SOCK_STREAM"
        \* line 593 assigns ai_flags, it does not or into it
        flags == IF config.type # SOCKET_UDP \/ config.server
                 THEN {"AI_PASSIVE"}
                 ELSE numeric
    IN  [ai_family |-> fam, ai_socktype |-> stype, ai_flags |-> flags]

\* one element of the list getaddrinfo returns
Candidate(fam, port) ==
    [ai_family |-> fam,
     ai_addr |-> IF fam = AF_INET THEN SockaddrIn(Loopback4, port)
                 ELSE SockaddrIn6(Loopback6, port)]

\* the candidate lists getaddrinfo may return for a host, a service and hints
GetAddrInfo(host, port, hints) ==
    LET fams == IF hints.ai_family = AF_UNSPEC THEN {AF_INET, AF_INET6}
                ELSE {hints.ai_family}
        maxlen == IF hints.ai_family = AF_UNSPEC THEN MaxCands ELSE 1
    IN  UNION {[1 .. n -> {Candidate(f, Strtoul(port)) : f \in fams}] : n \in 1 .. maxlen}

----------------------------------------------------------------------------
(* Native layer: descriptors *)

FreeFds(tab) == {fd \in Fds : ~tab[fd].open}
LowestFree(tab) == CHOOSE fd \in FreeFds(tab) : \A g \in FreeFds(tab) : fd <= g

\* socket(family, socktype, 0): the descriptor and the table after it, or
\* INVALID_SOCKET and the error; willopen is the native layer's choice
NativeSocket(tab, fam, stype, willopen) ==
    IF willopen /\ FreeFds(tab) # {}
    THEN LET fd == LowestFree(tab) IN
         [ret |-> fd, err |-> 0,
          tab |-> [tab EXCEPT ![fd] = [ClosedFd EXCEPT !.open = TRUE,
                                       !.family = fam, !.socktype = stype]]]
    ELSE [ret |-> INVALID_SOCKET,
          err |-> IF FreeFds(tab) = {} THEN PlatformError.EMFILE
                  ELSE PlatformError.EAFNOSUPPORT,
          tab |-> tab]

\* a mode change that leaves the descriptor as it is
KeepMode(tab, ch) == tab

\* fcntl(F_SETFL) as SocketSetNonBlocking / SocketSetBlocking use it
SocketSetNonBlocking(tab, ch) ==
    IF ch \in Fds /\ tab[ch].open THEN [tab EXCEPT ![ch].nonblock = TRUE] ELSE tab
SocketSetBlocking(tab, ch) ==
    IF ch \in Fds /\ tab[ch].open THEN [tab EXCEPT ![ch].nonblock = FALSE] ELSE tab

----------------------------------------------------------------------------
(* SocketCreate *)

\* the state CreateSocket's candidate walk works on
WalkState(sock, err, tab) ==
    [channel |-> sock.channel, status |-> sock.status, err |-> err, tab |-> tab,
     calls |-> <<>>, failed |-> FALSE]

\* InitSocket, after socket() has answered n: the descriptor is stored in the
\* Socket whether or not the call succeeded
InitSocketStore(w, i, n) ==
    [w EXCEPT !.channel = n.ret,
              !.tab = n.tab,
              !.err = IF n.ret = INVALID_SOCKET THEN n.err ELSE w.err,
              !.calls = Append(w.calls, Call("socket", n.ret, i, n.ret, n.err))]

\* InitSocket: open the channel for candidate i
InitSocket(w, type, cand, i, willopen) ==
    InitSocketStore(w, i,
        NativeSocket(w.tab,
                     IF cand.ai_family = AF_INET THEN AF_INET ELSE AF_INET6,
                     IF type = SOCKET_TCP THEN "SOCK_STREAM" ELSE "SOCK_DGRAM",
                     willopen))

\* the options setsockopt is called for: those before the first id 0
RECURSIVE ActiveOpts(_, _)
ActiveOpts(sockopts, i) ==
    IF i > Len(sockopts) \/ sockopts[i] = 0 THEN 0
    ELSE 1 + ActiveOpts(sockopts, i + 1)

\* SocketSetOptions that goes on with the options after the one that failed
SetOptionsPastFailure(w, sockopts, failat, n) ==
    [w EXCEPT !.calls = w.calls \o
                        [k \in 1 .. n |->
                           Call("setsockopt", w.channel, sockopts[k],
                                IF k = failat THEN -1 ELSE 0,
                                IF k = failat THEN PlatformError.EINVAL ELSE 0)],
              !.err = IF failat \in 1 .. n THEN PlatformError.EINVAL ELSE w.err,
              !.failed = failat \in 1 .. n]

\* SocketSetOptions over the first n options: setsockopt for each in order, up
\* to the first that fails; failat is the index of the option the native layer
\* rejects (0: none)
SetOptionsUpTo(w, sockopts, failat, n) ==
    [w EXCEPT !.calls = w.calls \o
                        [k \in 1 .. (IF failat \in 1 .. n THEN failat ELSE n) |->
                           Call("setsockopt", w.channel, sockopts[k],
                                IF k = failat THEN -1 ELSE 0,
                                IF k = failat THEN PlatformError.EINVAL ELSE 0)],
              !.err = IF failat \in 1 .. n THEN PlatformError.EINVAL ELSE w.err,
              !.failed = failat \in 1 .. n]

SocketSetOptions(w, sockopts, failat) ==
    SetOptionsUpTo(w, sockopts, failat, ActiveOpts(sockopts, 1))

\* CreateSocket after SocketSetOptions: on a failure the error is recorded and
\* CreateSocket returns false
AfterOptions(b) ==
    IF b.failed THEN [b EXCEPT !.status = b.err, !.err = 0] ELSE b

\* CreateSocket after InitSocket: on a failure
\* status = SocketGetLastError(); SocketSetLastError(0); continue
AfterInit(a, sockopts, failat) ==
    IF a.channel = INVALID_SOCKET
    THEN [a EXCEPT !.status = a.err, !.err = 0]
    ELSE AfterOptions(SocketSetOptions(a, sockopts, failat))

\* one pass of the for loop of CreateSocket, for candidate i
WalkStep(w, config, cand, i, willopen, failat) ==
    AfterInit(InitSocket(w, config.type, cand, i, willopen), config.sockopts, failat)

\* the for loop of CreateSocket over the candidates, from candidate i on; it
\* ends with the list, or with the return after an option that failed
RECURSIVE WalkCandidates(_, _, _, _, _, _)
WalkCandidates(w, config, res, i, opens, optfail) ==
    IF i > Len(res) \/ w.failed THEN w
    ELSE WalkCandidates(WalkStep(w, config, res[i], i, opens[i], optfail[i]),
                        config, res, i + 1, opens, optfail)

\* what a call of CreateSocket leaves: the Socket, the result status, the
\* return value, the error slot, the descriptor table and the native calls
Outcome(sock, status, ok, err, tab, calls) ==
    [sock |-> sock, status |-> status, ok |-> ok, err |-> err, tab |-> tab,
     calls |-> calls]

\* the success branch of CreateSocket: the address stored is that of res, the
\* head of the candidate list
CreateSuccess(sock, config, first) ==
    [sock EXCEPT
       !.ready = 0,
       !.status = 0,
       !.isServer = IF config.type # SOCKET_UDP THEN config.server ELSE @,
       !.addripv4 = IF ss_family(first) = AF_INET
                    THEN Memcpy(first, 0, SizeofSockaddrIn, 0) ELSE @,
       !.addripv6 = IF ss_family(first) = AF_INET6
                    THEN Memcpy(first, 0, SizeofSockaddrIn6, 0) ELSE @,
       !.isIPv6 = IF ss_family(first) = AF_INET THEN FALSE
                  ELSE IF ss_family(first) = AF_INET6 THEN TRUE ELSE @]

\* CreateSocket once the walk has ended in w
AfterWalk(s0, config, first, w, calls) ==
    IF w.failed
    THEN Outcome([s0 EXCEPT !.channel = w.channel, !.status = w.status],
                 RESULT_FAILURE, FALSE, w.err, w.tab, calls \o w.calls)
    ELSE IF w.channel = INVALID_SOCKET
    THEN \* status = SocketGetLastError(); SocketSetLastError(0)
         Outcome([s0 EXCEPT !.channel = w.channel, !.status = w.err],
                 RESULT_FAILURE, FALSE, 0, w.tab, calls \o w.calls)
    ELSE Outcome(CreateSuccess([s0 EXCEPT !.channel = w.channel], config, first),
                 RESULT_SUCCESS, TRUE, w.err, w.tab, calls \o w.calls)

\* CreateSocket from the Socket s0 it has reset; gai is the outcome of getaddrinfo
CreateFrom(s0, config, err, tab, gai, opens, optfail) ==
    IF ~gai.ok
    THEN Outcome([s0 EXCEPT !.status = gai.err], RESULT_FAILURE, FALSE, 0, tab,
                 <<Call("getaddrinfo", 0, config.host, -1, gai.err)>>)
    ELSE AfterWalk(s0, config, gai.res[1].ai_addr,
                   WalkCandidates(WalkState(s0, err, tab), config, gai.res, 1,
                                  opens, optfail),
                   <<Call("getaddrinfo", 0, config.host, 0, 0)>>)

\* CreateSocket(config, outresult) on the Socket sock
CreateSocket(config, sock, err, tab, gai, opens, optfail) ==
    CreateFrom([sock EXCEPT !.channel = INVALID_SOCKET, !.type = config.type],
               config, err, tab, gai, opens, optfail)

\* SocketCreate once CreateSocket has left c: the blocking mode is set after a
\* success only
CreateDone(r, cfg, c, cands) ==
    /\ sockets' = [sockets EXCEPT ![r] = c.sock]
    /\ rstatus' = [rstatus EXCEPT ![r] = c.status]
    /\ created' = [created EXCEPT ![r] = IF c.ok THEN "ok" ELSE "failed"]
    /\ configs' = [configs EXCEPT ![r] = cfg]
    /\ lasterr' = c.err
    /\ fds' = IF ~c.ok THEN c.tab
              ELSE IF cfg.nonblocking THEN SocketSetNonBlocking(c.tab, c.sock.channel)
              ELSE SocketSetBlocking(c.tab, c.sock.channel)
    /\ last' = [op |-> "Create", r |-> r, cfg |-> cfg, ok |-> c.ok, val |-> 0,
                calls |-> c.calls, cands |-> cands, buf |-> <<>>]
    /\ nops' = nops + 1
    /\ UNCHANGED <<io, binding, set>>

\* SocketCreate with the defaults filled in
CreateWith(r, cfg, gai, opens, optfail) ==
    CreateDone(r, cfg,
               CreateSocket(cfg, sockets[r], lasterr, fds, gai, opens, optfail),
               gai.res)

\* SocketCreate(config, result) on result r, with the native outcomes given
SocketCreate(r, config, gai, opens, optfail) ==
    /\ created[r] = "none"
    /\ CreateWith(r, SocketSetDefaults(config), gai, opens, optfail)

\* what getaddrinfo may answer for a configuration: a failure, with the error
\* slot left as it was or set, or one of the candidate lists
GaiOutcomes(config) ==
    {[ok |-> FALSE, err |-> e, res |-> <<>>] : e \in {lasterr, PlatformError.EINVAL}}
    \cup {[ok |-> TRUE, err |-> 0, res |-> l] :
            l \in GetAddrInfo(config.host, config.port, SocketSetHints(config))}

\* the option arrays a configuration may carry: ids, 0 ends the list
SockOptIds == {0, 2, 3}
SockOptArrays == [1 .. MaxSockOpts -> SockOptIds]
NoSockOpts == [i \in 1 .. MaxSockOpts |-> 0]

Config(host, port, type, server, nonblocking, backlog, sockopts) ==
    [host |-> host, port |-> port, type |-> type, server |-> server,
     nonblocking |-> nonblocking, backlog_size |-> backlog, sockopts |-> sockopts]

\* the option whose setsockopt fails: none, or option k of candidate c
OptFailures(n) ==
    {[i \in 1 .. n |-> 0]}
    \cup {[i \in 1 .. n |-> IF i = c THEN k ELSE 0] : c \in 1 .. n, k \in 1 .. MaxSockOpts}

\* a call of SocketCreate on result r with a configuration from cfgset
CreateCall(r, cfgset) ==
    /\ created[r] = "none"
    /\ nops < MaxOps
    /\ \E config \in cfgset :
        \E gai \in GaiOutcomes(config) :
          \E opens \in [1 .. Len(gai.res) -> BOOLEAN] :
            \E optfail \in OptFailures(Len(gai.res)) :
              SocketCreate(r, config, gai, opens, optfail)

----------------------------------------------------------------------------
(* Specification of SocketCreate alone: one call, every configuration *)

CreateConfigs ==
    {Config(h, "8080", t, sv, nb, bl, so) :
        h \in Hosts, t \in {SOCKET_TCP, SOCKET_UDP}, sv \in BOOLEAN,
        nb \in BOOLEAN, bl \in {0}, so \in SockOptArrays}

NextCreate == CreateCall(1, CreateConfigs)

SpecCreate == Init /\ [][NextCreate]_vars

----------------------------------------------------------------------------
(* Native layer: bind, listen, connect, accept *)

IsOpen(tab, ch) == ch \in Fds /\ tab[ch].open

\* the address a successful bind gives the descriptor: port 0 is replaced
BoundAddress(addr) ==
    IF Ntohs(GetSocketPortPtr(addr)) = 0
    THEN SubSeq(addr, 1, 2) \o Htons(EphemeralPort) \o SubSeq(addr, 5, Len(addr))
    ELSE addr

\* bind(ch, addr): 0 and the table after it, or SOCKET_ERROR and the error
NativeBind(tab, ch, addr, will) ==
    IF ~IsOpen(tab, ch) THEN [ret |-> -1, err |-> PlatformError.EBADF, tab |-> tab]
    ELSE IF ss_family(addr) # tab[ch].family
    THEN [ret |-> -1, err |-> PlatformError.EAFNOSUPPORT, tab |-> tab]
    ELSE IF tab[ch].bound # NULL
    THEN [ret |-> -1, err |-> PlatformError.EINVAL, tab |-> tab]
    ELSE IF ~will THEN [ret |-> -1, err |-> PlatformError.EADDRINUSE, tab |-> tab]
    ELSE [ret |-> 0, err |-> 0,
          tab |-> [tab EXCEPT ![ch].bound = BoundAddress(addr)]]

\* listen(ch, backlog)
NativeListen(tab, ch, will) ==
    IF ~IsOpen(tab, ch) THEN [ret |-> -1, err |-> PlatformError.EBADF, tab |-> tab]
    ELSE IF tab[ch].socktype # "SOCK_STREAM"
    THEN [ret |-> -1, err |-> PlatformError.EOPNOTSUPP, tab |-> tab]
    ELSE IF ~will THEN [ret |-> -1, err |-> PlatformError.EADDRINUSE, tab |-> tab]
    ELSE [ret |-> 0, err |-> 0, tab |-> [tab EXCEPT ![ch].listening = TRUE]]

\* what the native layer may answer to a connect on ch: 0 or an error;
\* would-block is an answer of non-blocking descriptors only
ConnectOutcomes(tab, ch) ==
    {0, PlatformError.ECONNREFUSED}
    \cup (IF IsOpen(tab, ch) /\ tab[ch].nonblock THEN {WSAEWOULDBLOCK} ELSE {})

\* connect(ch, addr): out is the native layer's choice among ConnectOutcomes
NativeConnect(tab, ch, addr, out) ==
    IF ~IsOpen(tab, ch) THEN [ret |-> -1, err |-> PlatformError.EBADF, tab |-> tab]
    ELSE IF ss_family(addr) # tab[ch].family
    THEN [ret |-> -1, err |-> PlatformError.EAFNOSUPPORT, tab |-> tab]
    ELSE IF out # 0 THEN [ret |-> -1, err |-> out, tab |-> tab]
    ELSE [ret |-> 0, err |-> 0,
          tab |-> [tab EXCEPT ![ch].connected = TRUE, ![ch].dest = addr]]

\* the address of a peer as accept reports it for a descriptor of family fam
PeerAddress(fam) ==
    IF fam = AF_INET THEN SockaddrIn(Loopback4, EphemeralPort)
    ELSE SockaddrIn6(Loopback6, EphemeralPort)

\* what the native layer may answer to an accept on ch: 0 or an error
AcceptOutcomes(tab, ch) ==
    {0, PlatformError.EMFILE}
    \cup (IF IsOpen(tab, ch) /\ tab[ch].nonblock THEN {WSAEWOULDBLOCK} ELSE {})

\* the connections accept may take from the queue of ch: one from a remote
\* peer (0), or one a descriptor of this process made to the address ch is
\* bound to and that no accept has taken yet
AcceptPeers(tab, ch) ==
    {0} \cup {c \in Fds : /\ IsOpen(tab, ch) /\ tab[ch].listening
                          /\ IsOpen(tab, c) /\ tab[c].connected
                          /\ tab[c].peer = 0 /\ tab[c].dest # NULL
                          /\ tab[c].dest = tab[ch].bound}

\* the table after accept has given the connection of from the descriptor fd
Paired(tab, fd, from) ==
    IF from = 0 THEN tab
    ELSE [tab EXCEPT ![fd].peer = from, ![from].peer = fd]

\* accept(ch, &addr, &len): the new descriptor and the peer's address; from
\* is the native layer's choice among AcceptPeers
NativeAccept(tab, ch, out, from) ==
    IF ~IsOpen(tab, ch)
    THEN [ret |-> INVALID_SOCKET, err |-> PlatformError.EBADF, tab |-> tab, addr |-> NULL]
    ELSE IF ~tab[ch].listening
    THEN [ret |-> INVALID_SOCKET, err |-> PlatformError.EINVAL, tab |-> tab, addr |-> NULL]
    ELSE IF out # 0 \/ FreeFds(tab) = {}
    THEN [ret |-> INVALID_SOCKET,
          err |-> IF out # 0 THEN out ELSE PlatformError.EMFILE,
          tab |-> tab, addr |-> NULL]
    ELSE LET fd == LowestFree(tab) IN
         [ret |-> fd, err |-> 0,
          tab |-> Paired([tab EXCEPT ![fd] = [ClosedFd EXCEPT !.open = TRUE,
                                              !.family = tab[ch].family,
                                              !.socktype = tab[ch].socktype,
                                              !.connected = TRUE]],
                         fd, from),
          addr |-> PeerAddress(tab[ch].family)]

----------------------------------------------------------------------------
(* SocketBind, SocketListen, SocketConnect *)

\* the record of a call for the variable last
Done(op, r, cfg, ok, val, calls) ==
    [op |-> op, r |-> r, cfg |-> cfg, ok |-> ok, val |-> val, calls |-> calls,
     cands |-> <<>>, buf |-> <<>>]

\* the fields the success branch of Bind, Listen and Connect sets
Succeeded(sock) == [sock EXCEPT !.ready = 0, !.status = 0]

\* the Socket after the success branch of SocketBind: getsockname writes the
\* bound address into the slot of the family, then a new addripv4 is filled by
\* memcpy from &s->sin_addr, 4 bytes into that slot
BindSuccess(sock, bound, junk) ==
    LET slot == IF sock.isIPv6 THEN sock.addripv6 ELSE sock.addripv4
        reread == Overwrite(slot, bound)
        s1 == IF sock.isIPv6 THEN [sock EXCEPT !.addripv6 = reread] ELSE sock
    IN  [Succeeded(s1) EXCEPT !.addripv4 = Memcpy(reread, 4, SizeofSockaddrIn, junk)]

\* the guard of SocketBind: no bind on an invalid channel or for a client
BindRefused(sock, config) == ~IsSocketValid(sock) \/ ~config.server

\* SocketBind(config, result) on result r
SocketBind(r, config, will, junk) ==
    LET sock == sockets[r]
        sock_addr == IF sock.isIPv6 THEN sock.addripv6 ELSE sock.addripv4
        refused == BindRefused(sock, config)
        n == NativeBind(fds, sock.channel, sock_addr, will)
        ok == ~refused /\ n.ret # -1
    IN  /\ created[r] # "none"
        \* binding a Socket that holds no address dereferences NULL: callers
        \* bind what SocketCreate has filled
        /\ refused \/ sock_addr # NULL
        /\ sockets' = [sockets EXCEPT ![r] =
                         IF refused THEN sock
                         ELSE IF ok THEN BindSuccess(sock, n.tab[sock.channel].bound, junk)
                         ELSE [sock EXCEPT !.status = n.err]]
        /\ rstatus' = [rstatus EXCEPT ![r] = IF ok THEN RESULT_SUCCESS ELSE RESULT_FAILURE]
        /\ lasterr' = IF refused \/ ok THEN lasterr ELSE 0
        /\ fds' = IF refused THEN fds ELSE n.tab
        /\ last' = Done("Bind", r, config, ok, 0,
                        IF refused THEN <<>>
                        ELSE <<Call("bind", sock.channel, sock_addr, n.ret, n.err)>>
                             \o (IF ok
                                 THEN <<Call("getsockname", sock.channel,
                                             n.tab[sock.channel].bound, 0, 0)>>
                                 ELSE <<>>))
        /\ nops' = nops + 1
        /\ UNCHANGED <<created, configs, io, binding, set>>

\* the guards of SocketListen: no listen on an invalid channel, for a client
\* or when the configuration says UDP
ListenRefused(sock, config) ==
    ~IsSocketValid(sock) \/ ~config.server \/ config.type = SOCKET_UDP

\* SocketListen(config, result) on result r
SocketListen(r, config, will) ==
    LET sock == sockets[r]
        refused == ListenRefused(sock, config)
        n == NativeListen(fds, sock.channel, will)
        ok == ~refused /\ n.ret # -1
    IN  /\ created[r] # "none"
        /\ sockets' = [sockets EXCEPT ![r] =
                         IF refused THEN sock
                         ELSE IF ok THEN Succeeded(sock)
                         ELSE [sock EXCEPT !.status = n.err]]
        /\ rstatus' = [rstatus EXCEPT ![r] = IF ok THEN RESULT_SUCCESS ELSE RESULT_FAILURE]
        /\ lasterr' = IF refused \/ ok THEN lasterr ELSE 0
        /\ fds' = IF refused THEN fds ELSE n.tab
        /\ last' = Done("Listen", r, config, ok, 0,
                        IF refused THEN <<>>
                        ELSE <<Call("listen", sock.channel, config.backlog_size, n.ret, n.err)>>)
        /\ nops' = nops + 1
        /\ UNCHANGED <<created, configs, io, binding, set>>

\* the destination SocketConnect builds from config.host and config.port, or
\* NULL when the host is no address literal
ConnectAddress(config) ==
    IF IsIPv4Address(config.host)
    THEN SockaddrIn(InetPton4(config.host), Strtoul(config.port))
    ELSE IF IsIPv6Address(config.host)
    THEN SockaddrIn6(InetPton6(config.host), Strtoul(config.port))
    ELSE NULL

\* a guard that lets every role connect
ConnectAnyRole(config) == FALSE

\* an answer of connect read without the would-block case
ConnectDoneOnly(ret, status) == ret # -1

\* the guard of SocketConnect: no connect for a server
ConnectRefused(config) == config.server

\* how SocketConnect reads the answer of connect: would-block is a success
ConnectSucceeded(ret, status) == ret # -1 \/ status = WSAEWOULDBLOCK

\* SocketConnect(config, result) on result r
SocketConnect(r, config, out) ==
    LET sock == sockets[r]
        dest == ConnectAddress(config)
        issued == ~ConnectRefused(config) /\ dest # NULL
        n == NativeConnect(fds, sock.channel, dest, out)
        \* the error slot is copied to the Socket before it is looked at
        s1 == IF issued /\ n.ret = -1 THEN [sock EXCEPT !.status = n.err] ELSE sock
        ok == /\ ~ConnectRefused(config)
              /\ issued => ConnectSucceeded(n.ret, s1.status)
    IN  /\ created[r] # "none"
        /\ sockets' = [sockets EXCEPT ![r] = IF ok THEN Succeeded(s1) ELSE s1]
        /\ rstatus' = [rstatus EXCEPT ![r] = IF ok THEN RESULT_SUCCESS ELSE RESULT_FAILURE]
        /\ lasterr' = IF issued /\ n.ret = -1 THEN 0 ELSE lasterr
        /\ fds' = IF issued THEN n.tab ELSE fds
        /\ last' = Done("Connect", r, config, ok, 0,
                        IF issued THEN <<Call("connect", sock.channel, dest, n.ret, n.err)>>
                        ELSE <<>>)
        /\ nops' = nops + 1
        /\ UNCHANGED <<created, configs, io, binding, set>>

----------------------------------------------------------------------------
(* SocketAccept *)

FreeSockets == {s \in SockIds : ~sockets[s].alloc}
\* AllocSocket: the Socket the next allocation returns
NewSocket == CHOOSE s \in FreeSockets : \A t \in FreeSockets : s <= t

\* the accepted Socket once accept has returned descriptor fd and the peer's
\* address in sock_addr: the address is copied from &s->sin_addr (4 bytes in)
\* or &s->sin6_addr (8 bytes in); the bytes of sock_addr that accept did not
\* write are indeterminate
Accepted(server, fd, sock_addr, junk) ==
    LET s0 == [ZeroSocket EXCEPT !.channel = fd, !.isServer = FALSE, !.ready = 0,
                                 !.type = server.type]
    IN  IF ss_family(sock_addr) = AF_INET
        THEN [s0 EXCEPT !.addripv4 = Memcpy(sock_addr, 4, SizeofSockaddrIn, junk)]
        ELSE IF ss_family(sock_addr) = AF_INET6
        THEN [s0 EXCEPT !.addripv6 = Memcpy(sock_addr, 8, SizeofSockaddrIn6, junk)]
        ELSE s0

\* a guard that lets every Socket accept
AcceptAnyRole(server) == FALSE

\* the guard of SocketAccept: no accept on a client or a UDP Socket
AcceptRefused(server) == ~server.isServer \/ server.type = SOCKET_UDP

\* SocketAccept(server, config) on the Socket sv
SocketAccept(sv, config, out, from, junk) ==
    LET server == sockets[sv]
        refused == AcceptRefused(server)
        n == NativeAccept(fds, server.channel, out, from)
        new == NewSocket
        ok == ~refused /\ n.ret # INVALID_SOCKET
        tab == IF ~ok THEN n.tab
               ELSE IF config.nonblocking THEN SocketSetNonBlocking(n.tab, n.ret)
               ELSE SocketSetBlocking(n.tab, n.ret)
    IN  /\ server.alloc
        /\ sv \in ResIds => created[sv] # "none"
        /\ refused \/ FreeSockets # {}
        /\ sockets' =
             IF refused THEN sockets
             ELSE [sockets EXCEPT
                     ![sv] = [server EXCEPT !.ready = 0],
                     \* SocketClose on the half-built Socket closes nothing: its
                     \* channel is INVALID_SOCKET; the Socket is not freed
                     ![new] = IF ok THEN Accepted(server, n.ret, n.addr, junk)
                              ELSE [ZeroSocket EXCEPT !.channel = INVALID_SOCKET,
                                                      !.status = n.err]]
        /\ lasterr' = IF refused \/ ok THEN lasterr ELSE 0
        /\ fds' = IF refused THEN fds ELSE tab
        /\ last' = Done("Accept", sv, config, ok, IF ok THEN new ELSE 0,
                        IF refused THEN <<>>
                        ELSE <<Call("accept", server.channel, n.addr, n.ret, n.err)>>)
        /\ nops' = nops + 1
        /\ UNCHANGED <<rstatus, created, configs, io, binding, set>>

----------------------------------------------------------------------------
(* Specification of the connection operations on one result *)

\* the configurations SocketCreate is called with
ConnConfigs ==
    {Config(h, p, t, sv, nb, 0, NoSockOpts) :
        h \in Hosts, p \in PortStrings, t \in {SOCKET_TCP, SOCKET_UDP},
        sv \in BOOLEAN, nb \in BOOLEAN}

\* the caller's configuration for r with the fields an operation reads set anew
WithRole(r, sv, t) == [configs[r] EXCEPT !.server = sv, !.type = t]

BindCall(r) ==
    /\ nops < MaxOps /\ created[r] # "none"
    /\ \E sv \in BOOLEAN, will \in BOOLEAN, junk \in JunkBytes :
        SocketBind(r, WithRole(r, sv, configs[r].type), will, junk)

ListenCall(r) ==
    /\ nops < MaxOps /\ created[r] # "none"
    /\ \E sv \in BOOLEAN, t \in {SOCKET_TCP, SOCKET_UDP}, will \in BOOLEAN :
        SocketListen(r, WithRole(r, sv, t), will)

ConnectCall(r) ==
    /\ nops < MaxOps /\ created[r] # "none"
    /\ \E sv \in BOOLEAN :
      \E out \in ConnectOutcomes(fds, sockets[r].channel) :
        SocketConnect(r, WithRole(r, sv, configs[r].type), out)

AcceptCall(r) ==
    /\ nops < MaxOps /\ created[r] # "none"
    /\ \E nb \in BOOLEAN, junk \in JunkBytes :
      \E out \in AcceptOutcomes(fds, sockets[r].channel),
         from \in AcceptPeers(fds, sockets[r].channel) :
        SocketAccept(r, [configs[r] EXCEPT !.nonblocking = nb], out, from, junk)

NextConn ==
    \/ CreateCall(1, ConnConfigs)
    \/ BindCall(1)
    \/ ListenCall(1)
    \/ ConnectCall(1)
    \/ AcceptCall(1)

SpecConn == Init /\ [][NextConn]_vars

----------------------------------------------------------------------------
(* Native layer: send, sendto *)

\* longest buffer passed to Send and Receive
MaxLen == 2
\* most native calls one Send or one Receive makes
MaxNative == 3

\* the answers of a native call: a byte count, or minus the error it leaves
NativeError(out) == -out

\* what the native layer may answer to a send of n bytes on ch: it takes at
\* least one byte of a buffer that is not empty, or fails; only a peer
\* outside the process resets the connection
SendAnswers(tab, ch, n) ==
    IF ~IsOpen(tab, ch) THEN {-PlatformError.EBADF}
    ELSE IF tab[ch].socktype = "SOCK_STREAM" /\ ~tab[ch].connected
    THEN {-PlatformError.ENOTCONN}
    ELSE (IF n = 0 THEN {0} ELSE 1 .. n)
         \cup {-WSAEINTR}
         \cup (IF tab[ch].peer = 0 THEN {-PlatformError.ECONNRESET} ELSE {})
         \cup (IF tab[ch].nonblock THEN {-WSAEWOULDBLOCK} ELSE {})

\* the descriptor table once ch has accepted bytes: they queue at its peer
Deliver(tab, ch, bytes) ==
    IF tab[ch].peer = 0 THEN tab
    ELSE [tab EXCEPT ![tab[ch].peer].rx = @ \o bytes]

\* send(ch, bytes) or sendto(ch, bytes, dest) answering out
NativeSend(tab, ch, bytes, out) ==
    IF out < 0 THEN [ret |-> -1, err |-> NativeError(out), tab |-> tab]
    ELSE [ret |-> out, err |-> 0, tab |-> Deliver(tab, ch, SubSeq(bytes, 1, out))]

----------------------------------------------------------------------------
(* SocketSend *)

\* the locals of SocketSend at the head of its TCP loop
SendState(length, err, tab) ==
    [sent |-> 0, left |-> length, off |-> 0, length |-> length, err |-> err,
     tab |-> tab, calls |-> <<>>, stop |-> FALSE]

\* how far one native answer moves sent, left and data
SendAdvance(ret) == IF ret > 0 THEN ret ELSE 0

\* a loop that never goes round again
SendOnce(left, length, err) == FALSE

\* the condition of the do-while of the TCP branch
SendAgain(left, length, err) == left > 0 /\ (length > 0 \/ err = WSAEINTR)

\* the locals after native send has answered n to the bytes offered
SendStored(st, ch, bytes, n) ==
    [st EXCEPT
       !.sent = @ + SendAdvance(n.ret),
       !.left = @ - SendAdvance(n.ret),
       !.off = @ + SendAdvance(n.ret),
       !.length = n.ret,
       !.err = IF n.ret = -1 THEN n.err ELSE @,
       !.tab = n.tab,
       !.calls = Append(@, Call("send", ch, bytes, n.ret, n.err)),
       !.stop = ~SendAgain(st.left - SendAdvance(n.ret), n.ret,
                           IF n.ret = -1 THEN n.err ELSE st.err)]

\* one pass of the loop: the not yet sent bytes are offered to send
SendStep(st, ch, data, out) ==
    SendStored(st, ch, SubSeq(data, st.off + 1, st.off + st.left),
               NativeSend(st.tab, ch, SubSeq(data, st.off + 1, st.off + st.left), out))

\* the runs of the loop from st that end within k more native calls, over
\* every answer the native layer can give
RECURSIVE SendLoop(_, _, _, _)
SendLoop(st, ch, data, k) ==
    IF st.stop THEN {st}
    ELSE IF k = 0 THEN {}
    ELSE UNION {SendLoop(SendStep(st, ch, data, out), ch, data, k - 1) :
                  out \in SendAnswers(st.tab, ch, st.left)}

\* what a call of SocketSend leaves
SendOutcome(sock, ret, err, tab, calls) ==
    [sock |-> sock, ret |-> ret, err |-> err, tab |-> tab, calls |-> calls]

\* the TCP branch after its loop has ended in st
SendTcpDone(sock, st) ==
    SendOutcome(IF st.length = -1 THEN [sock EXCEPT !.status = st.err] ELSE sock,
                st.sent,
                IF st.length = -1 THEN 0 ELSE st.err,
                st.tab, st.calls)

\* the test of the UDP branch on its local sent, which is still 0
SendUdpSucceeded(sent, status) == sent >= 0

\* the destination of the UDP branch
SendUdpAddress(sock) == IF sock.isIPv6 THEN sock.addripv6 ELSE sock.addripv4

\* the UDP branch after sendto has answered n
SendUdpDone(sock, ch, data, n) ==
    IF SendUdpSucceeded(0, n.ret)
    THEN SendOutcome([sock EXCEPT !.status = 0], 1,
                     IF n.ret = -1 THEN n.err ELSE 0, n.tab,
                     <<Call("sendto", ch, SendUdpAddress(sock), n.ret, n.err)>>)
    ELSE SendOutcome([sock EXCEPT !.status = n.err], 0, 0, n.tab,
                     <<Call("sendto", ch, SendUdpAddress(sock), n.ret, n.err)>>)

\* what sendto may answer to the datagram: all of it or an error; a Socket
\* without a stored address is not sent on
SendUdpAnswers(sock, data, tab) ==
    IF SendUdpAddress(sock) = NULL THEN {}
    ELSE {out \in SendAnswers(tab, sock.channel, Len(data)) :
            out < 0 \/ out = Len(data)}

\* the guard of SocketSend: no send on a server Socket
SendRefused(sock) == sock.isServer

\* SocketSend(sock, data, length): what it can leave, over every answer of
\* the native layer
SendResults(sock, data, err, tab) ==
    IF SendRefused(sock)
    THEN {SendOutcome(sock, -1, err, tab, <<>>)}
    ELSE IF sock.type = SOCKET_TCP
    THEN {SendTcpDone(sock, st) :
            st \in SendLoop(SendState(Len(data), 0, tab), sock.channel, data,
                            MaxNative)}
    ELSE IF sock.type = SOCKET_UDP
    THEN {SendUdpDone(sock, sock.channel, data,
                      NativeSend(tab, sock.channel, data, out)) :
            out \in SendUdpAnswers(sock, data, tab)}
    ELSE {SendOutcome(sock, -1, err, tab, <<>>)}

\* the record of a call of Send or Receive for the variable last
IoDone(op, s, ret, calls, buf) ==
    [op |-> op, r |-> s, cfg |-> NoCfg, ok |-> ret > 0, val |-> ret,
     calls |-> calls, cands |-> <<>>, buf |-> buf]

\* the state a call of SocketSend on the Socket s leaves
SendDone(s, data, res) ==
    /\ sockets' = [sockets EXCEPT ![s] = res.sock]
    /\ lasterr' = res.err
    /\ fds' = res.tab
    /\ last' = IoDone("Send", s, res.ret, res.calls, data)
    /\ io' = [io EXCEPT !.sent[s] = IF sockets[s].type = SOCKET_TCP
                                    THEN @ \o SubSeq(data, 1, SendAdvance(res.ret))
                                    ELSE @]
    /\ nops' = nops + 1
    /\ UNCHANGED <<rstatus, created, configs, binding, set>>

SocketSend(s, data) ==
    /\ sockets[s].alloc
    /\ \E res \in SendResults(sockets[s], data, lasterr, fds) : SendDone(s, data, res)

----------------------------------------------------------------------------
(* The TCP loop of SocketSend, one native call at a time *)

\* interrupted native calls within one SocketSend
MaxIntr == 1

\* what send may answer inside the loop: as SendAnswers, at most MaxIntr
\* interruptions in one call of SocketSend, and on a usable descriptor also 0
\* bytes taken while bytes are left
LoopAnswers(tab, ch, n, intr) ==
    (SendAnswers(tab, ch, n)
        \cup (IF -WSAEINTR \in SendAnswers(tab, ch, n) THEN {0} ELSE {}))
    \ (IF intr >= MaxIntr THEN {-WSAEINTR} ELSE {})

\* the locals of the loop that io.loop, the error slot and the descriptor
\* table hold
LoopState(l) ==
    [SendState(Len(l.data), lasterr, fds) EXCEPT
       !.sent = l.sent, !.left = l.left, !.off = l.sent, !.length = l.length]

\* SocketSend on a TCP Socket that is no server, up to the head of the loop:
\* SocketSetLastError(0)
SendBegin(s, data) ==
    /\ io.loop.pc = "idle"
    /\ sockets[s].alloc /\ ~SendRefused(sockets[s]) /\ sockets[s].type = SOCKET_TCP
    /\ lasterr' = 0
    /\ io' = [io EXCEPT !.loop = [NoLoop EXCEPT !.pc = "send", !.s = s, !.data = data,
                                               !.left = Len(data),
                                               !.length = Len(data)]]
    /\ UNCHANGED <<sockets, rstatus, created, configs, fds, last, nops, binding, set>>

\* one pass of the do-while: send, the update of the locals and the test
SendPass ==
    /\ io.loop.pc = "send"
    /\ LET l == io.loop
           ch == sockets[l.s].channel
       IN  \E out \in LoopAnswers(fds, ch, l.left, l.intr) :
             LET nx == SendStep(LoopState(l), ch, l.data, out)
             IN  /\ io' = [io EXCEPT !.loop =
                             [l EXCEPT !.pc = IF nx.stop THEN "done" ELSE "send",
                                       !.intr = IF out = -WSAEINTR THEN @ + 1 ELSE @,
                                       !.sent = nx.sent,
                                       !.left = nx.left,
                                       !.length = nx.length,
                                       !.calls = nx.calls,
                                       !.odd = ~@]]
                 /\ lasterr' = nx.err
                 /\ fds' = nx.tab
    /\ UNCHANGED <<sockets, rstatus, created, configs, last, nops, binding, set>>

\* SocketSend after the loop: the status and the return
SendReturn ==
    /\ io.loop.pc = "done"
    /\ LET l == io.loop
           res == SendTcpDone(sockets[l.s], [LoopState(l) EXCEPT !.calls = l.calls])
       IN  /\ sockets' = [sockets EXCEPT ![l.s] = res.sock]
           /\ lasterr' = res.err
           /\ last' = IoDone("Send", l.s, res.ret, res.calls, l.data)
           /\ io' = [io EXCEPT !.sent[l.s] = @ \o SubSeq(l.data, 1, res.ret),
                               !.loop = NoLoop]
    /\ nops' = nops + 1
    /\ UNCHANGED <<rstatus, created, configs, fds, binding, set>>

----------------------------------------------------------------------------
(* Native layer: recv, recvfrom *)

\* the bytes a peer outside the process sends: as many as are asked for
RemoteBytes(k) == [i \in 1 .. k |-> 200 + i]

\* bytes that can be read from ch at once into a buffer of maxlen bytes
Readable(tab, ch, maxlen) ==
    IF tab[ch].peer = 0 THEN maxlen
    ELSE IF Len(tab[ch].rx) < maxlen THEN Len(tab[ch].rx) ELSE maxlen

\* what the native layer may answer to a receive of up to maxlen bytes on ch;
\* 0 is the end of the stream, or an empty datagram, of a peer outside
RecvAnswers(tab, ch, maxlen) ==
    IF ~IsOpen(tab, ch) THEN {-PlatformError.EBADF}
    ELSE IF tab[ch].socktype = "SOCK_STREAM" /\ ~tab[ch].connected
    THEN {-PlatformError.ENOTCONN}
    ELSE (1 .. Readable(tab, ch, maxlen))
         \cup (IF tab[ch].peer = 0 THEN {0} ELSE {})
         \cup {-WSAEINTR}
         \cup (IF tab[ch].peer = 0 THEN {-PlatformError.ECONNRESET} ELSE {})
         \cup (IF tab[ch].nonblock THEN {-WSAEWOULDBLOCK} ELSE {})

\* recv(ch, buf, maxlen) or recvfrom(ch, buf, maxlen, ...) answering out: the
\* bytes read leave the queue of the descriptor
NativeRecv(tab, ch, out) ==
    IF out < 0
    THEN [ret |-> -1, err |-> NativeError(out), tab |-> tab, bytes |-> <<>>]
    ELSE IF tab[ch].peer = 0
    THEN [ret |-> out, err |-> 0, tab |-> tab, bytes |-> RemoteBytes(out)]
    ELSE [ret |-> out, err |-> 0,
          tab |-> [tab EXCEPT ![ch].rx = SubSeq(@, out + 1, Len(@))],
          bytes |-> SubSeq(tab[ch].rx, 1, out)]

----------------------------------------------------------------------------
(* SocketReceive *)

\* the caller's buffer of maxlen bytes and the byte that follows it in memory
RecvBuffer(maxlen) == [i \in 1 .. (maxlen + 1) |-> 165]

\* the locals of SocketReceive at the head of its TCP loop
RecvState(buf, err, tab) ==
    [len |-> 0, buf |-> buf, err |-> err, tab |-> tab, calls |-> <<>>,
     stop |-> FALSE]

\* the condition of the do-while of the TCP branch
RecvAgain(err) == err = WSAEINTR

\* the locals after native recv has answered n
RecvStored(st, ch, n) ==
    [st EXCEPT
       !.len = n.ret,
       !.buf = Overwrite(@, n.bytes),
       !.err = IF n.ret = -1 THEN n.err ELSE @,
       !.tab = n.tab,
       !.calls = Append(@, Call("recv", ch, n.bytes, n.ret, n.err)),
       !.stop = ~RecvAgain(IF n.ret = -1 THEN n.err ELSE st.err)]

\* the runs of the loop of the TCP branch from st that end within k more
\* native calls, over every answer the native layer can give
RECURSIVE RecvLoop(_, _, _, _)
RecvLoop(st, ch, maxlen, k) ==
    IF st.stop THEN {st}
    ELSE IF k = 0 THEN {}
    ELSE UNION {RecvLoop(RecvStored(st, ch, NativeRecv(st.tab, ch, out)),
                         ch, maxlen, k - 1) :
                  out \in RecvAnswers(st.tab, ch, maxlen)}

\* what a call of SocketReceive leaves
RecvOutcome(sock, ret, err, tab, calls, buf) ==
    [sock |-> sock, ret |-> ret, err |-> err, tab |-> tab, calls |-> calls,
     buf |-> buf]

\* the buffer with the terminator the TCP branch writes at data[len]
Terminated(buf, len) ==
    IF len > 0 THEN [buf EXCEPT ![len + 1] = 0] ELSE buf

\* a TCP branch that clears the ready flag only when bytes arrived
RecvTcpKeepsReady(sock, st) ==
    RecvOutcome(IF st.len > 0 THEN [sock EXCEPT !.ready = 0] ELSE sock,
                st.len, st.err, st.tab, st.calls, Terminated(st.buf, st.len))

\* the TCP branch after its loop has ended in st
RecvTcpDone(sock, st) ==
    RecvOutcome([sock EXCEPT !.ready = 0], st.len, st.err, st.tab, st.calls,
                Terminated(st.buf, st.len))

\* the UDP branch after recvfrom has answered n
RecvUdpDone(sock, ch, buf, n) ==
    IF n.ret >= 0
    THEN RecvOutcome([sock EXCEPT !.ready = 0], 1, 0, n.tab,
                     <<Call("recvfrom", ch, n.bytes, n.ret, n.err)>>,
                     Overwrite(buf, n.bytes))
    ELSE RecvOutcome([sock EXCEPT !.status = n.err], 0, 0, n.tab,
                     <<Call("recvfrom", ch, n.bytes, n.ret, n.err)>>, buf)

\* a SocketReceive without the guard for server Sockets
RecvNeverRefused(sock) == FALSE

\* the guard of SocketReceive: no receive on a TCP server Socket
RecvRefused(sock) == sock.isServer /\ sock.type = SOCKET_TCP

\* SocketReceive(sock, data, maxlen): what it can leave, over every answer of
\* the native layer
RecvResults(sock, maxlen, err, tab) ==
    IF RecvRefused(sock)
    THEN {RecvOutcome([sock EXCEPT !.status = err], 0, 0, tab, <<>>,
                      RecvBuffer(maxlen))}
    ELSE IF sock.type = SOCKET_TCP
    THEN {RecvTcpDone(sock, st) :
            st \in RecvLoop(RecvState(RecvBuffer(maxlen), 0, tab), sock.channel,
                            maxlen, MaxNative)}
    ELSE IF sock.type = SOCKET_UDP
    THEN {RecvUdpDone(sock, sock.channel, RecvBuffer(maxlen),
                      NativeRecv(tab, sock.channel, out)) :
            out \in RecvAnswers(tab, sock.channel, maxlen)}
    ELSE {RecvOutcome(sock, -1, err, tab, <<>>, RecvBuffer(maxlen))}

\* the state a call of SocketReceive on the Socket s leaves
RecvDone(s, res) ==
    /\ sockets' = [sockets EXCEPT ![s] = res.sock]
    /\ lasterr' = res.err
    /\ fds' = res.tab
    /\ last' = IoDone("Receive", s, res.ret, res.calls, res.buf)
    /\ io' = [io EXCEPT !.recvd[s] = IF sockets[s].type = SOCKET_TCP /\ res.ret > 0
                                     THEN @ \o SubSeq(res.buf, 1, res.ret)
                                     ELSE @]
    /\ nops' = nops + 1
    /\ UNCHANGED <<rstatus, created, configs, binding, set>>

SocketReceive(s, maxlen) ==
    /\ sockets[s].alloc
    /\ \E res \in RecvResults(sockets[s], maxlen, lasterr, fds) : RecvDone(s, res)

----------------------------------------------------------------------------
(* Specification of the data transfer on one result and what it accepts *)

\* the bytes the caller passes to its next Send on s: numbered on from the
\* bytes already sent
Payload(s, n) == [i \in 1 .. n |-> Len(io.sent[s]) + i]

\* the configurations SocketCreate is called with
IoConfigs ==
    {Config("127.0.0.1", "8080", t, sv, nb, 0, NoSockOpts) :
        t \in {SOCKET_TCP, SOCKET_UDP}, sv \in BOOLEAN, nb \in BOOLEAN}

SendCall(S) ==
    /\ nops < MaxOps
    /\ \E s \in S, n \in 0 .. MaxLen : SocketSend(s, Payload(s, n))

ReceiveCall(S) ==
    /\ nops < MaxOps
    /\ \E s \in S, maxlen \in 1 .. MaxLen : SocketReceive(s, maxlen)

NextIO ==
    \/ CreateCall(1, IoConfigs)
    \/ BindCall(1)
    \/ ConnectCall(1)
    \/ ListenCall(1)
    \/ AcceptCall(1)
    \/ SendCall(SockIds)
    \/ ReceiveCall(SockIds)

SpecIO == Init /\ [][NextIO]_vars

----------------------------------------------------------------------------
(* Specification of a TCP connection between two Sockets of one process *)

\* API calls in one behaviour of the pair
MaxPairOps == 8

\* result 1 is the server, result 2 the client
PairConfig(r, nb) ==
    Config("127.0.0.1", "8080", SOCKET_TCP, r = 1, nb, 0, NoSockOpts)

\* the Sockets whose channel is one end of a connection inside the process
PairedSockets ==
    {s \in SockIds : /\ sockets[s].alloc /\ IsOpen(fds, sockets[s].channel)
                     /\ fds[sockets[s].channel].peer # 0}

PairCreate(r) ==
    /\ created[r] = "none"
    /\ nops < MaxPairOps
    /\ \E nb \in BOOLEAN :
        \E gai \in GaiOutcomes(PairConfig(r, nb)) :
          \E opens \in [1 .. Len(gai.res) -> BOOLEAN] :
            \E optfail \in OptFailures(Len(gai.res)) :
              SocketCreate(r, PairConfig(r, nb), gai, opens, optfail)

\* the server binds once
PairBind ==
    /\ nops < MaxPairOps /\ created[1] # "none"
    /\ IsOpen(fds, sockets[1].channel) /\ fds[sockets[1].channel].bound = NULL
    /\ \E will \in BOOLEAN, junk \in JunkBytes :
        SocketBind(1, configs[1], will, junk)

\* and listens once it is bound
PairListen ==
    /\ nops < MaxPairOps /\ created[1] # "none"
    /\ IsOpen(fds, sockets[1].channel)
    /\ fds[sockets[1].channel].bound # NULL /\ ~fds[sockets[1].channel].listening
    /\ \E will \in BOOLEAN : SocketListen(1, configs[1], will)

\* the client connects once the server listens
PairConnect ==
    /\ nops < MaxPairOps /\ created[1] # "none" /\ created[2] # "none"
    /\ IsOpen(fds, sockets[1].channel) /\ fds[sockets[1].channel].listening
    /\ IsOpen(fds, sockets[2].channel) /\ ~fds[sockets[2].channel].connected
    /\ \E out \in ConnectOutcomes(fds, sockets[2].channel) :
        SocketConnect(2, configs[2], out)

\* the server accepts the connection of the client
PairAccept ==
    /\ nops < MaxPairOps /\ created[1] # "none"
    /\ PairedSockets = {}
    /\ \E junk \in JunkBytes :
      \E out \in AcceptOutcomes(fds, sockets[1].channel),
         from \in AcceptPeers(fds, sockets[1].channel) \ {0} :
        SocketAccept(1, configs[1], out, from, junk)

PairSend ==
    /\ nops < MaxPairOps
    /\ \E s \in PairedSockets, n \in 1 .. MaxLen : SocketSend(s, Payload(s, n))

PairReceive ==
    /\ nops < MaxPairOps
    /\ \E s \in PairedSockets, maxlen \in 1 .. MaxLen : SocketReceive(s, maxlen)

NextPair ==
    \/ PairCreate(1)
    \/ PairCreate(2)
    \/ PairBind
    \/ PairListen
    \/ PairConnect
    \/ PairAccept
    \/ PairSend
    \/ PairReceive

SpecPair == Init /\ [][NextPair]_vars

----------------------------------------------------------------------------
(* SocketSetChannel, SocketUnsetChannel *)

\* the channel argument that asks SocketSetChannel to pick a slot
AUTO_CHANNEL == -1

\* the null Socket pointer among the Socket ids
NULL_SOCKET == 0

ValidChannel(channel) == ~(channel < 0 \/ channel >= SOCKET_MAX_UDPCHANNELS)

\* the slots of a channel table with room for one more address
Spare(tbl) ==
    {c \in 0 .. (SOCKET_MAX_UDPCHANNELS - 1) :
        tbl[c].numbound < SOCKET_MAX_UDPADDRESSES}

\* a choice of the last slot with room
LastSpare(tbl) ==
    IF Spare(tbl) = {} THEN SOCKET_MAX_UDPCHANNELS
    ELSE CHOOSE c \in Spare(tbl) : \A d \in Spare(tbl) : c >= d

\* the value of channel when the for loop of the auto branch ends: the first
\* slot with room, or SOCKET_MAX_UDPCHANNELS when the loop ran out
AutoChannel(tbl) ==
    IF Spare(tbl) = {} THEN SOCKET_MAX_UDPCHANNELS
    ELSE CHOOSE c \in Spare(tbl) : \A d \in Spare(tbl) : c <= d

\* the slot the pointer binding refers to once channel is settled: the loop
\* that ran out left it on the last slot
BindingOf(channel) ==
    IF channel = SOCKET_MAX_UDPCHANNELS THEN SOCKET_MAX_UDPCHANNELS - 1
    ELSE channel

\* a test for a full slot that never finds one
NeverFull(slot) == FALSE

\* the test for a full slot
SlotFull(slot) == slot.numbound = SOCKET_MAX_UDPADDRESSES

\* a store of the address that leaves the count as it is
Overwritten(slot, address) ==
    [slot EXCEPT !.address = IF slot.numbound \in DOMAIN slot.address
                             THEN [slot.address EXCEPT ![slot.numbound] = address]
                             ELSE slot.address]

\* binding->address[binding->numbound++] = *address
Appended(slot, address) ==
    [numbound |-> slot.numbound + 1,
     address |-> IF slot.numbound \in DOMAIN slot.address
                 THEN [slot.address EXCEPT ![slot.numbound] = address]
                 ELSE slot.address]

\* the record of a call on the channel table or on the SocketSet: buf keeps
\* the arguments after the first
AuxDone(op, s, args, ret, calls) ==
    [op |-> op, r |-> s, cfg |-> NoCfg, ok |-> ret # -1, val |-> ret,
     calls |-> calls, cands |-> <<>>, buf |-> args]

\* SocketSetChannel(socket, channel, address): s is NULL_SOCKET or a Socket
SocketSetChannel(s, channel, address) ==
    LET tbl == binding[s]
        picked == IF channel = AUTO_CHANNEL THEN AutoChannel(tbl) ELSE channel
        slot == BindingOf(picked)
        ret == IF s = NULL_SOCKET THEN -1
               ELSE IF channel # AUTO_CHANNEL /\ ~ValidChannel(channel) THEN -1
               ELSE IF SlotFull(tbl[slot]) THEN -1
               ELSE picked
    IN  /\ IF s = NULL_SOCKET THEN TRUE ELSE sockets[s].alloc
        /\ binding' = IF ret = -1 THEN binding
                       ELSE [binding EXCEPT ![s][slot] = Appended(@, address)]
        /\ last' = AuxDone("SetChannel", s, <<channel, address>>, ret, <<>>)
        /\ nops' = nops + 1
        /\ UNCHANGED <<sockets, rstatus, created, configs, lasterr, fds, io, set>>

\* an assignment that leaves the slot as it is
Kept(slot) == slot

\* socket->binding[channel].numbound = 0
Cleared(slot) == [slot EXCEPT !.numbound = 0]

\* SocketUnsetChannel(socket, channel); an index in range reads the Socket
SocketUnsetChannel(s, channel) ==
    LET inrange == channel >= 0 /\ channel < SOCKET_MAX_UDPCHANNELS
    IN  /\ IF inrange THEN s # NULL_SOCKET /\ sockets[s].alloc ELSE TRUE
        /\ binding' = IF inrange THEN [binding EXCEPT ![s][channel] = Cleared(@)]
                       ELSE binding
        /\ last' = AuxDone("UnsetChannel", s, <<channel>>, 0, <<>>)
        /\ nops' = nops + 1
        /\ UNCHANGED <<sockets, rstatus, created, configs, lasterr, fds, io, set>>

----------------------------------------------------------------------------
(* Specification of the channel table of the Sockets *)

\* calls on the channel tables in one behaviour
MaxChanOps == 5

\* the addresses the caller binds
ChannelAddresses == {[host |-> h, port |-> 8080] : h \in {1, 2}}

\* the channel arguments: the auto value, every slot, and one index out of
\* range on each side
ChannelArgs == (AUTO_CHANNEL - 1) .. SOCKET_MAX_UDPCHANNELS

SetChannelCall ==
    /\ nops < MaxChanOps
    /\ \E s \in {NULL_SOCKET, 1}, channel \in ChannelArgs,
          address \in ChannelAddresses :
        SocketSetChannel(s, channel, address)

UnsetChannelCall ==
    /\ nops < MaxChanOps
    /\ \E s \in {NULL_SOCKET, 1}, channel \in ChannelArgs :
        SocketUnsetChannel(s, channel)

NextChan == SetChannelCall \/ UnsetChannelCall

SpecChan == Init /\ [][NextChan]_vars

----------------------------------------------------------------------------
(* SocketSet: AllocSocketSet, AddSocket, RemoveSocket *)

\* AllocSocketSet(max): no member, every entry of the array a null pointer
AllocSocketSet(max) ==
    /\ ~set.alloc
    /\ set' = [alloc |-> TRUE, numsockets |-> 0, maxsockets |-> max,
               sockets |-> [i \in 0 .. (max - 1) |-> NULL_SOCKET]]
    /\ last' = AuxDone("AllocSet", NULL_SOCKET, <<max>>, 0, <<>>)
    /\ nops' = nops + 1
    /\ UNCHANGED <<sockets, rstatus, created, configs, lasterr, fds, io, binding>>

\* a test for a full set that never finds one
SetNeverFull(st) == FALSE

\* the test of AddSocket for a full set
SetFull(st) == st.numsockets = st.maxsockets

\* a store of the Socket into the first entry of the array
AddedFirst(st, s) ==
    [st EXCEPT !.sockets = [st.sockets EXCEPT ![0] = s],
               !.numsockets = st.numsockets + 1]

\* set->sockets[set->numsockets++] = sock
Added(st, s) ==
    [st EXCEPT !.sockets = IF st.numsockets \in DOMAIN st.sockets
                           THEN [st.sockets EXCEPT ![st.numsockets] = s]
                           ELSE st.sockets,
               !.numsockets = st.numsockets + 1]

\* AddSocket(set, sock): s is NULL_SOCKET or a Socket
AddSocket(s) ==
    LET refused == s = NULL_SOCKET \/ SetFull(set)
        st == IF refused THEN set ELSE Added(set, s)
    IN  /\ set.alloc
        /\ IF s = NULL_SOCKET THEN TRUE ELSE sockets[s].alloc
        /\ set' = st
        /\ lasterr' = IF refused THEN 0 ELSE lasterr
        /\ last' = AuxDone("Add", s, <<>>, IF refused THEN -1 ELSE st.numsockets,
                           <<>>)
        /\ nops' = nops + 1
        /\ UNCHANGED <<sockets, rstatus, created, configs, fds, io, binding>>

\* the value of i after the search loop of RemoveSocket: the first index
\* holding s, or numsockets
FoundAt(st, s) ==
    LET hits == {i \in 0 .. (st.numsockets - 1) : st.sockets[i] = s}
    IN  IF hits = {} THEN st.numsockets
        ELSE CHOOSE i \in hits : \A j \in hits : i <= j

\* --set->numsockets, then every entry after i moves down by one
Removed(st, i) ==
    [st EXCEPT !.numsockets = st.numsockets - 1,
               !.sockets = [k \in DOMAIN st.sockets |->
                              IF k >= i /\ k < st.numsockets - 1
                              THEN st.sockets[k + 1] ELSE st.sockets[k]]]

\* RemoveSocket(set, sock): a null sock skips the search and the removal
RemoveSocket(s) ==
    LET i == FoundAt(set, s)
        missing == s # NULL_SOCKET /\ i = set.numsockets
        st == IF s = NULL_SOCKET \/ missing THEN set ELSE Removed(set, i)
    IN  /\ set.alloc
        /\ IF s = NULL_SOCKET THEN TRUE ELSE sockets[s].alloc
        /\ set' = st
        /\ lasterr' = IF missing THEN 0 ELSE lasterr
        /\ last' = AuxDone("Remove", s, <<>>, IF missing THEN -1 ELSE st.numsockets,
                           <<>>)
        /\ nops' = nops + 1
        /\ UNCHANGED <<sockets, rstatus, created, configs, fds, io, binding>>

----------------------------------------------------------------------------
(* Native layer: select *)

\* the descriptors of the members
MemberFds(st) == {sockets[st.sockets[i]].channel : i \in 0 .. (st.numsockets - 1)}

\* the descriptors select looks at exist: the standard streams and the open
\* descriptors
Exists(tab, fd) == fd \in 0 .. 2 \/ IsOpen(tab, fd)

\* the subsets of mask select may report readable: a descriptor connected
\* inside the process is readable exactly when bytes are queued for it
SelectMasks(tab, mask) ==
    {R \in SUBSET mask :
        \A fd \in mask :
            (IsOpen(tab, fd) /\ tab[fd].peer # 0) => (fd \in R <=> tab[fd].rx # <<>>)}

\* what select may answer for mask: the readable descriptors and their number
\* (0 when the wait timed out), or SOCKET_ERROR and an error
SelectAnswers(tab, mask) ==
    IF \E fd \in mask : ~Exists(tab, fd)
    THEN {[ret |-> -1, err |-> PlatformError.EBADF, mask |-> mask]}
    ELSE {[ret |-> Cardinality(R), err |-> 0, mask |-> R] : R \in SelectMasks(tab, mask)}
         \cup {[ret |-> -1, err |-> e, mask |-> mask] :
                  e \in {WSAEINTR, PlatformError.EINVAL}}

----------------------------------------------------------------------------
(* CheckSockets *)

\* the largest descriptor of the members, 0 at least
MaxFd(st) ==
    LET m == MemberFds(st) \cup {0}
    IN  CHOOSE fd \in m : \A g \in m : fd >= g

\* a test of the mask that finds every member
AllSet(mask, fd) == TRUE

FD_ISSET(mask, fd) == fd \in mask

\* the Sockets after the marking loop: ready = 1 on every member in the mask
Marked(socks, st, retval, mask) ==
    IF retval > 0
    THEN [s \in DOMAIN socks |->
            IF /\ \E i \in 0 .. (st.numsockets - 1) : st.sockets[i] = s
               /\ FD_ISSET(mask, socks[s].channel)
            THEN [socks[s] EXCEPT !.ready = 1] ELSE socks[s]]
    ELSE socks

\* the answers of the selects of one CheckSockets: interrupted ones, as many
\* as k at most, and one that is not
SelectRuns(tab, mask, k) ==
    {[ints |-> j, fin |-> a] :
        j \in 0 .. (k - 1),
        a \in {x \in SelectAnswers(tab, mask) : x.err # WSAEINTR}}

\* the log of the selects of a run
SelectCalls(run, nfds, mask) ==
    [k \in 1 .. (run.ints + 1) |->
        IF k <= run.ints THEN Call("select", nfds, mask, -1, WSAEINTR)
        ELSE Call("select", nfds, run.fin.mask, run.fin.ret, run.fin.err)]

\* CheckSockets(set, timeout); FD_SET needs the channel of every member valid
CheckSockets(timeout) ==
    /\ set.alloc
    /\ \A i \in 0 .. (set.numsockets - 1) : IsSocketValid(sockets[set.sockets[i]])
    /\ \E run \in SelectRuns(fds, MemberFds(set), MaxNative) :
        /\ sockets' = Marked(sockets, set, run.fin.ret, run.fin.mask)
        /\ lasterr' = run.fin.err
        /\ last' = AuxDone("Check", NULL_SOCKET, <<timeout>>, run.fin.ret,
                           SelectCalls(run, MaxFd(set) + 1, MemberFds(set)))
        /\ nops' = nops + 1
        /\ UNCHANGED <<rstatus, created, configs, fds, io, binding, set>>

----------------------------------------------------------------------------
(* Specification of a SocketSet over the Sockets of the process *)

\* API calls in one behaviour with the set
MaxSetOps == 5
\* largest capacity a SocketSet is allocated with
MaxSetSize == 2

\* the configurations SocketCreate is called with
SetConfigs ==
    {Config("127.0.0.1", "8080", t, sv, FALSE, 0, NoSockOpts) :
        t \in {SOCKET_TCP, SOCKET_UDP}, sv \in BOOLEAN}

\* the Sockets the caller holds, and the null pointer
Held == {NULL_SOCKET} \cup {s \in SockIds : sockets[s].alloc}

SetCreate(r) ==
    /\ created[r] = "none"
    /\ nops < MaxSetOps
    /\ \E config \in SetConfigs :
        \E gai \in GaiOutcomes(config) :
          \E opens \in [1 .. Len(gai.res) -> BOOLEAN] :
            \E optfail \in OptFailures(Len(gai.res)) :
              SocketCreate(r, config, gai, opens, optfail)

AllocSetCall ==
    /\ nops < MaxSetOps
    /\ \E max \in 1 .. MaxSetSize : AllocSocketSet(max)

AddCall ==
    /\ nops < MaxSetOps
    /\ \E s \in Held : AddSocket(s)

RemoveCall ==
    /\ nops < MaxSetOps
    /\ \E s \in Held : RemoveSocket(s)

CheckCall ==
    /\ nops < MaxSetOps
    /\ \E timeout \in {0, 1000} : CheckSockets(timeout)

NextSet ==
    \/ SetCreate(1)
    \/ AllocSetCall
    \/ AddCall
    \/ RemoveCall
    \/ CheckCall

SpecSet == Init /\ [][NextSet]_vars

----------------------------------------------------------------------------
(* Specification of the ready flag: the set, the connection operations and *)
(* the data transfer on one result                                         *)

ReadyBind ==
    /\ nops < MaxSetOps /\ created[1] # "none"
    /\ \E will \in BOOLEAN, junk \in JunkBytes : SocketBind(1, configs[1], will, junk)

ReadyListen ==
    /\ nops < MaxSetOps /\ created[1] # "none"
    /\ \E will \in BOOLEAN : SocketListen(1, configs[1], will)

ReadyConnect ==
    /\ nops < MaxSetOps /\ created[1] # "none"
    /\ \E out \in ConnectOutcomes(fds, sockets[1].channel) :
        SocketConnect(1, configs[1], out)

ReadyAccept ==
    /\ nops < MaxSetOps /\ created[1] # "none"
    /\ \E junk \in JunkBytes :
      \E out \in AcceptOutcomes(fds, sockets[1].channel),
         from \in AcceptPeers(fds, sockets[1].channel) :
        SocketAccept(1, configs[1], out, from, junk)

ReadySend ==
    /\ nops < MaxSetOps
    /\ \E s \in Held \ {NULL_SOCKET}, n \in 1 .. MaxLen : SocketSend(s, Payload(s, n))

ReadyReceive ==
    /\ nops < MaxSetOps
    /\ \E s \in Held \ {NULL_SOCKET}, maxlen \in 1 .. MaxLen : SocketReceive(s, maxlen)

NextReady ==
    \/ SetCreate(1)
    \/ AllocSetCall
    \/ AddCall
    \/ RemoveCall
    \/ CheckCall
    \/ ReadyBind
    \/ ReadyListen
    \/ ReadyConnect
    \/ ReadyAccept
    \/ ReadySend
    \/ ReadyReceive

SpecReady == Init /\ [][NextReady]_vars

----------------------------------------------------------------------------
(* Specification of the TCP loop of SocketSend on one result *)

LoopConfigs ==
    {Config("127.0.0.1", "8080", SOCKET_TCP, sv, nb, 0, NoSockOpts) :
        sv \in BOOLEAN, nb \in BOOLEAN}

LoopCreate == io.loop.pc = "idle" /\ CreateCall(1, LoopConfigs)

LoopConnect == io.loop.pc = "idle" /\ ConnectCall(1)

LoopSend ==
    /\ nops < MaxOps
    /\ \E n \in 1 .. MaxLen : SendBegin(1, Payload(1, n))

NextLoop ==
    \/ LoopCreate
    \/ LoopConnect
    \/ LoopSend
    \/ SendPass
    \/ SendReturn

\* a thread inside SocketSend goes on executing it
SpecLoop ==
    Init /\ [][NextLoop]_vars /\ WF_vars(SendPass) /\ WF_vars(SendReturn)

----------------------------------------------------------------------------
(* Specification of Receive on a Socket that a Check may have marked ready *)

\* API calls in one behaviour that ends with a Receive
MaxRecvOps == 6

RecvCreate ==
    /\ created[1] = "none"
    /\ nops < MaxRecvOps
    /\ \E config \in SetConfigs :
        \E gai \in GaiOutcomes(config) :
          SocketCreate(1, config, gai, [i \in 1 .. Len(gai.res) |-> TRUE],
                       [i \in 1 .. Len(gai.res) |-> 0])

RecvConnect ==
    /\ nops < MaxRecvOps /\ created[1] # "none"
    /\ \E out \in ConnectOutcomes(fds, sockets[1].channel) :
        SocketConnect(1, configs[1], out)

RecvAllocSet ==
    /\ nops < MaxRecvOps
    /\ AllocSocketSet(1)

RecvAdd ==
    /\ nops < MaxRecvOps
    /\ sockets[1].alloc
    /\ AddSocket(1)

RecvCheck ==
    /\ nops < MaxRecvOps
    /\ \E timeout \in {0, 1000} : CheckSockets(timeout)

RecvReceive ==
    /\ nops < MaxRecvOps
    /\ sockets[1].alloc
    /\ \E maxlen \in 1 .. MaxLen : SocketReceive(1, maxlen)

NextRecv ==
    \/ RecvCreate
    \/ RecvConnect
    \/ RecvAllocSet
    \/ RecvAdd
    \/ RecvCheck
    \/ RecvReceive

SpecRecv == Init /\ [][NextRecv]_vars

----------------------------------------------------------------------------
(* SocketClose *)

\* closesocket(ch): the descriptor is released and whoever was connected to it
\* has no peer any more; SOCKET_ERROR on a descriptor that is not open
NativeClose(tab, ch) ==
    IF ~IsOpen(tab, ch) THEN [ret |-> -1, err |-> PlatformError.EBADF, tab |-> tab]
    ELSE [ret |-> 0, err |-> 0,
          tab |-> [fd \in Fds |->
                      IF fd = ch THEN ClosedFd
                      ELSE IF tab[fd].peer = ch THEN [tab[fd] EXCEPT !.peer = 0]
                      ELSE tab[fd]]]

\* SocketClose(sock) on the Socket s of a result: closesocket on a channel
\* other than INVALID_SOCKET, and no field of the Socket is written
SocketClose(s) ==
    LET sock == sockets[s]
        valid == sock.channel # INVALID_SOCKET
        n == NativeClose(fds, sock.channel)
    IN  /\ sock.alloc
        /\ fds' = IF valid THEN n.tab ELSE fds
        /\ lasterr' = IF valid /\ n.ret = -1 THEN n.err ELSE lasterr
        /\ last' = Done("Close", s, NoCfg, valid /\ n.ret = 0, 0,
                        IF valid THEN <<Call("closesocket", sock.channel, 0, n.ret, n.err)>>
                        ELSE <<>>)
        /\ nops' = nops + 1
        /\ UNCHANGED <<sockets, rstatus, created, configs, io, binding, set>>

----------------------------------------------------------------------------
(* Specification of Close with Bind and Listen on one result *)

CloseCall(r) ==
    /\ nops < MaxOps /\ created[r] # "none"
    /\ SocketClose(r)

NextClose ==
    \/ CreateCall(1, ConnConfigs)
    \/ BindCall(1)
    \/ ListenCall(1)
    \/ CloseCall(1)

SpecClose == Init /\ [][NextClose]_vars

----------------------------------------------------------------------------
(* ResolveHost *)

\* the null pointer passed as the address argument, among the host strings
NULL_ADDRESS == "(null)"

\* sizeof(struct sockaddr): the generic address is as long as sockaddr_in
SizeofSockaddr == SizeofSockaddrIn

\* one struct addrinfo of the list the native resolution returns
AddrInfo(fam, stype, port) ==
    [ai_flags |-> {},
     ai_family |-> fam,
     ai_socktype |-> stype,
     ai_protocol |-> IF stype = "SOCK_STREAM" THEN "IPPROTO_TCP" ELSE "IPPROTO_UDP",
     ai_addrlen |-> IF fam = AF_INET THEN SizeofSockaddrIn ELSE SizeofSockaddrIn6,
     ai_addr |-> IF fam = AF_INET THEN SockaddrIn(Loopback4, port)
                 ELSE SockaddrIn6(Loopback6, port)]

\* the families the native resolution finds for a host under the hints; an
\* absent host stands for the wildcard or loopback address of every family
ResolvedFamilies(address, hints) ==
    LET found == IF address = NULL_ADDRESS \/ address = "localhost" THEN {AF_INET, AF_INET6}
                 ELSE IF IsIPv4Address(address) THEN {AF_INET}
                 ELSE IF IsIPv6Address(address) THEN {AF_INET6}
                 ELSE {}
    IN  IF hints.ai_family = AF_UNSPEC THEN found ELSE found \cap {hints.ai_family}

\* what getaddrinfo may answer to ResolveHost: a failure, or a list of
\* candidates, one per family and socket type at most MaxCands long; the
\* hints of ResolveHost leave ai_socktype 0, so both socket types come back
ResolveAnswers(address, service, hints) ==
    LET each == {AddrInfo(f, st, Strtoul(service)) :
                    f \in ResolvedFamilies(address, hints),
                    st \in {"SOCK_STREAM", "SOCK_DGRAM"}}
    IN  {[ok |-> FALSE, err |-> PlatformError.EINVAL, res |-> <<>>]}
        \cup {[ok |-> TRUE, err |-> 0, res |-> l] :
                 l \in UNION {[1 .. n -> each] : n \in 0 .. MaxCands}}

\* the hints ResolveHost builds: ai_flags is a set of flag names
ResolveHints(address, addressType, flags) ==
    [ai_family |-> addressType,
     ai_socktype |-> ZEROED,
     ai_flags |-> IF address = NULL_ADDRESS /\ "AI_PASSIVE" \notin flags
                  THEN flags \cup {"AI_PASSIVE"} ELSE flags]

\* *outAddr[i]->addr.ai_addr = *iterator->ai_addr: an assignment of one
\* struct sockaddr into the struct sockaddr AllocAddress allocated
CopiedSockaddr(sa) == Overwrite(Zeros(SizeofSockaddr), SubSeq(sa, 1, SizeofSockaddr))

\* the entry ResolveHost fills for one candidate
ResolvedEntry(it) ==
    [ai_flags |-> it.ai_flags,
     ai_family |-> it.ai_family,
     ai_socktype |-> it.ai_socktype,
     ai_protocol |-> it.ai_protocol,
     ai_addrlen |-> it.ai_addrlen,
     ai_addr |-> CopiedSockaddr(it.ai_addr)]

\* ResolveHost(address, service, addressType, flags, outAddr) with the answer
\* gai of getaddrinfo; outAddr is an array of the caller's with room for the
\* entries and the null pointer after them
ResolveHost(address, service, addressType, flags, gai) ==
    LET hints == ResolveHints(address, addressType, flags)
        size == Len(gai.res)
        ret == IF ~gai.ok \/ size <= 0 THEN -1 ELSE size
    IN  /\ lasterr' = IF gai.ok THEN lasterr ELSE 0
        /\ last' = [op |-> "Resolve", r |-> 0, cfg |-> NoCfg, ok |-> ret # -1,
                    val |-> ret,
                    calls |-> <<Call("getaddrinfo", 0,
                                     [host |-> address, service |-> service,
                                      hints |-> hints],
                                     IF gai.ok THEN 0 ELSE -1, gai.err)>>,
                    cands |-> gai.res,
                    buf |-> IF ret = -1 THEN <<>>
                            ELSE [i \in 1 .. size |-> ResolvedEntry(gai.res[i])]]
        /\ nops' = nops + 1
        /\ UNCHANGED <<sockets, rstatus, created, configs, fds, io, binding, set>>

----------------------------------------------------------------------------
(* Specification of ResolveHost alone *)

\* the flags arguments of the caller
ResolveFlags == {{}, {"AI_PASSIVE"}, {"AI_NUMERICHOST"}}

ResolveCall ==
    /\ nops < MaxOps
    /\ \E address \in Hosts \cup {NULL_ADDRESS}, service \in PortStrings,
          addressType \in {AF_UNSPEC, AF_INET, AF_INET6}, flags \in ResolveFlags :
        \E gai \in ResolveAnswers(address, service,
                                   ResolveHints(address, addressType, flags)) :
            ResolveHost(address, service, addressType, flags, gai)

NextResolve == ResolveCall

SpecResolve == Init /\ [][NextResolve]_vars

----------------------------------------------------------------------------
(* Accessors *)

\* SocketGetPeerAddress: NULL for a server, else the slot the family tag selects
SocketGetPeerAddress(sock) ==
    IF sock.isServer THEN NULL
    ELSE IF sock.isIPv6 THEN sock.addripv6 ELSE sock.addripv4

----------------------------------------------------------------------------
(* Properties of SocketCreate, stated over the call that ran last *)

\* the Socket the last call was made on
LastSocket == sockets[last.r]

\* the positions of the native calls of function fn in the log of the last call
CallsOf(fn) == {k \in DOMAIN last.calls : last.calls[k].fn = fn}

\* socket() was called for candidate i and returned a descriptor
Opened(i) ==
    \E k \in CallsOf("socket") :
        last.calls[k].arg = i /\ last.calls[k].ret # INVALID_SOCKET

\* the descriptor socket() returned for candidate i
OpenedFd(i) ==
    LET k == CHOOSE k \in CallsOf("socket") : last.calls[k].arg = i
    IN  last.calls[k].ret

\* candidate i worked: its channel was opened and no option failed on it
Worked(i) ==
    /\ Opened(i)
    /\ \A k \in CallsOf("setsockopt") :
          last.calls[k].fd = OpenedFd(i) => last.calls[k].ret = 0

\* i is the first candidate that worked
FirstWorking(i) == Worked(i) /\ \A j \in 1 .. (i - 1) : ~Worked(j)

\* the address of the slot the family tag selects
StoredAddress(sock) == IF sock.isIPv6 THEN sock.addripv6 ELSE sock.addripv4

\* C1: during Create the walk stops at the first candidate whose channel-open
\* and options all succeed: socket() is called for no later candidate and the
\* Socket keeps the channel of that candidate.
C1_StopsAtFirstWorking ==
    last.op = "Create" =>
        \A i \in DOMAIN last.cands :
            FirstWorking(i) =>
                /\ \A k \in CallsOf("socket") : last.calls[k].arg <= i
                /\ LastSocket.channel = OpenedFd(i)

\* C2: whenever at least one candidate worked, Create returns success with
\* status SUCCESS and a valid channel, whatever happened to the others.
C2_SuccessIfAnyWorked ==
    (last.op = "Create" /\ \E i \in DOMAIN last.cands : Worked(i)) =>
        /\ last.ok
        /\ rstatus[last.r] = RESULT_SUCCESS
        /\ IsSocketValid(LastSocket)

\* C3: after a successful Create the family tag and the stored address are
\* those of the candidate whose channel the Socket holds.
C3_AddressOfWinner ==
    (last.op = "Create" /\ last.ok) =>
        \A i \in DOMAIN last.cands :
            (Opened(i) /\ OpenedFd(i) = LastSocket.channel) =>
                /\ LastSocket.isIPv6 = (last.cands[i].ai_family = AF_INET6)
                /\ StoredAddress(LastSocket) = last.cands[i].ai_addr

\* C4: whenever Create returns failure the result status is FAILURE and the
\* channel of the Socket is INVALID.
C4_FailureLeavesInvalid ==
    (last.op = "Create" /\ ~last.ok) =>
        /\ rstatus[last.r] = RESULT_FAILURE
        /\ ~IsSocketValid(LastSocket)

----------------------------------------------------------------------------
(* Properties of the connection operations *)

\* the Sockets a successful SocketCreate or SocketAccept has produced
Produced(s) ==
    /\ sockets[s].alloc
    /\ IF s \in ResIds THEN created[s] = "ok" ELSE IsSocketValid(sockets[s])

\* the port and host fields of a socket address of family fam
AddressFields(sa, fam) ==
    [port |-> SubSeq(sa, 3, 4),
     host |-> IF fam = AF_INET6 THEN SubSeq(sa, 9, 24) ELSE SubSeq(sa, 5, 8)]

\* the family the tag of a Socket stands for
TagFamily(sock) == IF sock.isIPv6 THEN AF_INET6 ELSE AF_INET

\* C5: in every state of a Socket produced by a successful Create or Accept
\* the populated address slot is exactly the one the family tag selects,
\* never both, and the peer-address accessor of a client Socket returns a
\* populated address.
C5_SlotMatchesTag ==
    \A s \in SockIds :
        Produced(s) =>
            /\ (sockets[s].addripv4 # NULL) <=> ~sockets[s].isIPv6
            /\ (sockets[s].addripv6 # NULL) <=> sockets[s].isIPv6
            /\ ~sockets[s].isServer => SocketGetPeerAddress(sockets[s]) # NULL

\* C6: after a successful Bind the stored address of the Socket's family has
\* the host and the port of the address the native layer has bound, and a
\* Socket created with port 0 reports a bound port > 0.
C6_StoredIsBound ==
    (last.op = "Bind" /\ last.ok) =>
        LET fam == TagFamily(LastSocket)
            stored == AddressFields(StoredAddress(LastSocket), fam)
            bound == AddressFields(fds[LastSocket.channel].bound, fam)
        IN  /\ stored = bound
            /\ last.cfg.port = "0" => Ntohs(stored.port) > 0

\* C7: after a successful Accept the accepted Socket is non-null and the slot
\* of the peer's family holds the host and the port of the peer's address as
\* the native accept reported it.
C7_PeerIsReported ==
    (last.op = "Accept" /\ last.ok) =>
        LET reported == last.calls[1].arg
            fam == ss_family(reported)
            acc == sockets[last.val]
            slot == IF fam = AF_INET6 THEN acc.addripv6 ELSE acc.addripv4
        IN  /\ acc.alloc
            /\ slot # NULL
            /\ AddressFields(slot, fam) = AddressFields(reported, fam)

\* C8: whatever configuration is passed to an operation, no native listen or
\* accept is issued on the channel of a Socket whose type is UDP.
C8_UdpNeverListens ==
    (last.op # "none" /\ LastSocket.type = SOCKET_UDP) =>
        CallsOf("listen") \cup CallsOf("accept") = {}

\* the call that ran last violated the role: Bind or Listen with a non-server
\* configuration, Connect with a server configuration
RoleViolation ==
    \/ last.op \in {"Bind", "Listen"} /\ ~last.cfg.server
    \/ last.op = "Connect" /\ last.cfg.server

\* C9: a role violation returns failure with result status FAILURE, issues no
\* native call and leaves every Socket and every descriptor as it was.
C9_RoleViolationNoEffect ==
    [][RoleViolation' =>
          /\ ~last'.ok
          /\ rstatus'[last'.r] = RESULT_FAILURE
          /\ last'.calls = <<>>
          /\ sockets' = sockets
          /\ fds' = fds
          /\ lasterr' = lasterr]_vars

\* a role violation on a created Socket that holds an error status
C9_Witness ==
    /\ RoleViolation
    /\ created[last.r] = "ok"
    /\ LastSocket.status # 0
    /\ LastSocket.addripv4 # NULL

\* C10: when native connect is issued, success or would-block gives success
\* with result status SUCCESS; every other error gives failure with result
\* status FAILURE and the error code in the Socket's status.
C10_ConnectOutcome ==
    (last.op = "Connect" /\ CallsOf("connect") # {}) =>
        LET c == last.calls[1]
        IN  IF c.ret = 0 \/ c.err = WSAEWOULDBLOCK
            THEN last.ok /\ rstatus[last.r] = RESULT_SUCCESS
            ELSE /\ ~last.ok
                 /\ rstatus[last.r] = RESULT_FAILURE
                 /\ LastSocket.status = c.err

\* a non-blocking connect that reported would-block
C10_Witness ==
    /\ last.op = "Connect"
    /\ CallsOf("connect") # {}
    /\ last.calls[1].err = WSAEWOULDBLOCK
    /\ fds[LastSocket.channel].nonblock
    /\ last.ok

----------------------------------------------------------------------------
(* Properties of SocketAccept *)

\* C11: Accept on a Socket that is UDP or no server returns null, issues no
\* native accept, allocates no Socket and changes no field of any Socket.
C11_RefusedAcceptNoEffect ==
    [][(/\ last'.op = "Accept"
        /\ \/ ~sockets[last'.r].isServer
           \/ sockets[last'.r].type = SOCKET_UDP) =>
          /\ ~last'.ok
          /\ last'.val = 0
          /\ last'.calls = <<>>
          /\ sockets' = sockets
          /\ fds' = fds]_vars

\* an Accept on a created UDP Socket with an open channel
C11_Witness ==
    /\ last.op = "Accept"
    /\ created[last.r] = "ok"
    /\ LastSocket.type = SOCKET_UDP
    /\ IsOpen(fds, LastSocket.channel)
    /\ last.val = 0

\* C12: a successful Accept returns a new Socket, not the server, with a valid
\* channel of its own, role client, the server's type, ready flag 0 and the
\* blocking mode the caller's config.nonblocking asks for; the server keeps
\* its channel, role and type.
C12_AcceptedSocket ==
    [][(last'.op = "Accept" /\ last'.ok) =>
          /\ last'.val \in SockIds \ {last'.r}
          /\ ~sockets[last'.val].alloc
          /\ sockets'[last'.val].alloc
          /\ IsSocketValid(sockets'[last'.val])
          /\ IsOpen(fds', sockets'[last'.val].channel)
          /\ sockets'[last'.val].channel # sockets'[last'.r].channel
          /\ ~sockets'[last'.val].isServer
          /\ sockets'[last'.val].type = sockets[last'.r].type
          /\ sockets'[last'.val].ready = 0
          /\ fds'[sockets'[last'.val].channel].nonblock = last'.cfg.nonblocking
          /\ sockets'[last'.r].channel = sockets[last'.r].channel
          /\ sockets'[last'.r].isServer = sockets[last'.r].isServer
          /\ sockets'[last'.r].type = sockets[last'.r].type]_vars

\* a blocking server whose accepted Socket was asked to be non-blocking
C12_Witness ==
    /\ last.op = "Accept"
    /\ last.ok
    /\ last.cfg.nonblocking
    /\ ~fds[LastSocket.channel].nonblock
    /\ fds[sockets[last.val].channel].nonblock

\* C13: when native accept fails Accept returns null, no half-built Socket
\* stays allocated, the error slot is 0 and the server is still a valid
\* server Socket.
C13_FailedAcceptCleansUp ==
    (last.op = "Accept" /\ ~last.ok /\ CallsOf("accept") # {}) =>
        /\ last.val = 0
        /\ lasterr = 0
        /\ IsSocketValid(LastSocket) /\ LastSocket.isServer
        /\ \A s \in SockIds \ ResIds :
              sockets[s].alloc => IsSocketValid(sockets[s])

----------------------------------------------------------------------------
(* Properties of SocketSend and SocketReceive *)

\* the bytes the native calls 1 .. k of the last operation took or gave
RECURSIVE Moved(_)
Moved(k) ==
    IF k = 0 THEN 0
    ELSE Moved(k - 1) + (IF last.calls[k].ret > 0 THEN last.calls[k].ret ELSE 0)

\* the native calls of the last operation that failed
FailedCalls == {k \in DOMAIN last.calls : last.calls[k].ret = -1}

\* C14: Send on a Socket created with server = true, TCP or UDP, issues no
\* native send or sendto and returns the failure value.
C14_ServerSendRejected ==
    (last.op = "Send" /\ last.r \in ResIds /\ created[last.r] = "ok"
       /\ configs[last.r].server) =>
        /\ last.calls = <<>>
        /\ last.val = -1

C16_UdpSendResult ==
    (last.op = "Send" /\ LastSocket.type = SOCKET_UDP /\ ~LastSocket.isServer) =>
        /\ Len(last.calls) = 1
        /\ last.calls[1].fn = "sendto"
        /\ last.calls[1].arg = StoredAddress(LastSocket)
        /\ IF last.calls[1].ret = -1
           THEN last.val = 0 /\ LastSocket.status = last.calls[1].err
           ELSE last.val = 1

\* C17: within one TCP Receive a native receive is issued again only after
\* one that failed with the interrupted-call error, and the value returned
\* is that of the last native receive.
C17_SingleReceive ==
    (last.op = "Receive" /\ LastSocket.type = SOCKET_TCP /\ last.calls # <<>>) =>
        /\ \A k \in 1 .. (Len(last.calls) - 1) :
              last.calls[k].ret = -1 /\ last.calls[k].err = WSAEINTR
        /\ last.val = last.calls[Len(last.calls)].ret

\* C19: UDP Receive returns 1 when recvfrom succeeds; on would-block it
\* returns 0 and leaves the Socket's status as it was; on any other error it
\* returns 0 with the error in the Socket's status.
C19_UdpReceiveResult ==
    [][(last'.op = "Receive" /\ sockets[last'.r].type = SOCKET_UDP) =>
          /\ Len(last'.calls) = 1
          /\ IF last'.calls[1].ret >= 0 THEN last'.val = 1
             ELSE /\ last'.val = 0
                  /\ sockets'[last'.r].status =
                       IF last'.calls[1].err = WSAEWOULDBLOCK
                       THEN sockets[last'.r].status
                       ELSE last'.calls[1].err]_vars

\* the Socket a failure of the last operation is recorded on holds status e:
\* for Accept it is the Socket Accept had allocated
Recorded(e) ==
    IF last.op = "Accept"
    THEN \E s \in SockIds \ ResIds : sockets[s].alloc /\ sockets[s].status = e
    ELSE LastSocket.status = e

\* C20: when the last native call of an operation has failed, would-block on
\* Connect aside, the error is in the status of the affected Socket and the
\* error slot is 0 when the operation returns.
C20_ErrorCapturedAndCleared ==
    (last.op # "none" /\ last.calls # <<>>
       /\ last.calls[Len(last.calls)].ret = -1
       /\ ~(last.op = "Connect" /\ last.calls[1].err = WSAEWOULDBLOCK)) =>
        /\ Recorded(last.calls[Len(last.calls)].err)
        /\ lasterr = 0

----------------------------------------------------------------------------
(* Properties of a connected pair *)

\* the Socket at the other end of the connection of s
PeerSocket(s) ==
    CHOOSE p \in SockIds :
        sockets[p].alloc /\ sockets[p].channel = fds[sockets[s].channel].peer

\* C18: over a connected TCP pair the bytes Receive has returned on one end,
\* followed by the bytes still in flight to it, are the bytes Send has taken
\* at the other end, in order: no byte is lost, duplicated or altered
C18_RoundTrip ==
    \A s \in PairedSockets :
        io.recvd[PeerSocket(s)] \o fds[sockets[PeerSocket(s)].channel].rx
            = io.sent[s]

\* a Send has been received in full at the other end
C18_Witness ==
    \E s \in PairedSockets :
        /\ io.sent[s] # <<>>
        /\ io.recvd[PeerSocket(s)] = io.sent[s]

----------------------------------------------------------------------------
(* Properties of SocketSetChannel and SocketUnsetChannel *)

Channels == 0 .. (SOCKET_MAX_UDPCHANNELS - 1)

\* the cases in which SetChannel(s, channel, ...) has to fail on the tables b
MustRefuse(b, s, channel) ==
    \/ s = NULL_SOCKET
    \/ channel # AUTO_CHANNEL /\ channel \notin Channels
    \/ /\ s # NULL_SOCKET /\ channel = AUTO_CHANNEL
       /\ \A c \in Channels : b[s][c].numbound >= SOCKET_MAX_UDPADDRESSES
    \/ /\ s # NULL_SOCKET /\ channel \in Channels
       /\ b[s][channel].numbound >= SOCKET_MAX_UDPADDRESSES

\* the slot c of Socket s has gained address as its last entry and nothing
\* else of any channel table has changed
AppendedTo(s, c, address) ==
    /\ binding'[s][c].numbound = binding[s][c].numbound + 1
    /\ binding'[s][c].address[binding[s][c].numbound] = address
    /\ \A i \in DOMAIN binding[s][c].address :
          i # binding[s][c].numbound =>
              binding'[s][c].address[i] = binding[s][c].address[i]
    /\ \A z \in SockIds, d \in Channels :
          <<z, d>> # <<s, c>> => binding'[z][d] = binding[z][d]

\* C21: SetChannel returns -1 and leaves every channel as it was for a null
\* socket, an index out of range, a table without spare capacity (auto) and a
\* full target slot; in every other case it appends the address to exactly
\* one slot, raises that slot's count by one and returns the slot's index.
C21_SetChannelResult ==
    [][last'.op = "SetChannel" =>
         IF MustRefuse(binding, last'.r, last'.buf[1])
         THEN last'.val = -1 /\ binding' = binding
         ELSE /\ last'.val \in Channels
              /\ AppendedTo(last'.r, last'.val, last'.buf[2])]_vars

\* an auto SetChannel on a Socket whose slots are all full
C21_Witness ==
    /\ last.op = "SetChannel" /\ last.r # NULL_SOCKET
    /\ last.buf[1] = AUTO_CHANNEL
    /\ \A c \in Channels : binding[last.r][c].numbound = SOCKET_MAX_UDPADDRESSES
    /\ last.val = -1

\* C22: SetChannel with the auto value binds into the lowest slot with spare
\* capacity and returns its index, which lies in [0, MAX).
C22_AutoPicksLowest ==
    [][(/\ last'.op = "SetChannel" /\ last'.r # NULL_SOCKET
        /\ last'.buf[1] = AUTO_CHANNEL /\ last'.val # -1) =>
         /\ last'.val \in Channels
         /\ binding[last'.r][last'.val].numbound < SOCKET_MAX_UDPADDRESSES
         /\ \A c \in Channels :
               c < last'.val =>
                   binding[last'.r][c].numbound >= SOCKET_MAX_UDPADDRESSES
         /\ binding'[last'.r][last'.val].numbound
               = binding[last'.r][last'.val].numbound + 1]_vars

\* an auto SetChannel that went past a full slot 0 while a later slot is
\* still empty
C22_Witness ==
    /\ last.op = "SetChannel" /\ last.r # NULL_SOCKET
    /\ last.buf[1] = AUTO_CHANNEL
    /\ last.val = 1
    /\ binding[last.r][0].numbound = SOCKET_MAX_UDPADDRESSES

\* C23: the count of every channel stays within 0 .. capacity and nothing is
\* stored at or beyond the capacity index of a slot.
C23_CountWithinCapacity ==
    \A s \in SockIds, c \in Channels :
        /\ binding[s][c].numbound \in 0 .. SOCKET_MAX_UDPADDRESSES
        /\ binding[s][c].address[SOCKET_MAX_UDPADDRESSES] = ZeroAddress

\* a SetChannel on a full slot, after an UnsetChannel somewhere before
C23_Witness ==
    /\ last.op = "SetChannel" /\ last.r # NULL_SOCKET
    /\ last.buf[1] \in Channels
    /\ binding[last.r][last.buf[1]].numbound = SOCKET_MAX_UDPADDRESSES
    /\ last.val = -1
    /\ \E c \in Channels :
          /\ binding[last.r][c].numbound = 0
          /\ binding[last.r][c].address[0] # ZeroAddress

\* C24: UnsetChannel on a valid index sets that channel's count to 0 and
\* leaves every other channel unchanged; on an index out of range it changes
\* nothing; SetChannel on a channel with a count below capacity, as after an
\* UnsetChannel, succeeds.
C24_UnsetResets ==
    [][/\ (last'.op = "UnsetChannel" /\ last'.buf[1] \in Channels) =>
            /\ binding'[last'.r][last'.buf[1]].numbound = 0
            /\ \A z \in SockIds, d \in Channels :
                  <<z, d>> # <<last'.r, last'.buf[1]>> =>
                      binding'[z][d] = binding[z][d]
       /\ (last'.op = "UnsetChannel" /\ last'.buf[1] \notin Channels) =>
            binding' = binding
       /\ (/\ last'.op = "SetChannel" /\ last'.r # NULL_SOCKET
           /\ last'.buf[1] \in Channels
           /\ binding[last'.r][last'.buf[1]].numbound < SOCKET_MAX_UDPADDRESSES) =>
            last'.val = last'.buf[1]]_vars

\* a SetChannel that succeeded on a slot an UnsetChannel had emptied: the
\* entry after the new one is still there from before
C24_Witness ==
    /\ last.op = "SetChannel" /\ last.r # NULL_SOCKET
    /\ last.val \in Channels
    /\ last.buf[1] = last.val
    /\ binding[last.r][last.val].numbound = 1
    /\ binding[last.r][last.val].address[1] # ZeroAddress

----------------------------------------------------------------------------
(* Properties of the SocketSet *)

\* the indices of the member array that hold members
MemberIndices == 0 .. (set.numsockets - 1)

IsMember(s) == \E i \in MemberIndices : set.sockets[i] = s

\* C25: the member count of a SocketSet allocated with capacity N stays
\* within 0 .. N and the first count entries of the member array are the
\* members: each of them holds a Socket, none a null pointer.
C25_CountWithinCapacity ==
    set.alloc =>
        /\ set.numsockets \in 0 .. set.maxsockets
        /\ \A i \in MemberIndices :
              /\ i \in DOMAIN set.sockets
              /\ set.sockets[i] # NULL_SOCKET
              /\ sockets[set.sockets[i]].alloc

\* a set filled to its capacity of 2 that an Add of a Socket was refused on
C25_Witness ==
    /\ set.alloc /\ set.maxsockets = 2 /\ set.numsockets = 2
    /\ last.op = "Add" /\ last.val = -1 /\ last.r # NULL_SOCKET

\* C26: Add returns -1 and leaves count and members unchanged when the set is
\* at capacity or the socket is null; otherwise it appends the socket as the
\* last member and returns the new count, the old count plus one.
C26_AddResult ==
    [][last'.op = "Add" =>
         IF last'.r = NULL_SOCKET \/ set.numsockets = set.maxsockets
         THEN last'.val = -1 /\ set' = set
         ELSE /\ last'.val = set.numsockets + 1
              /\ set'.numsockets = set.numsockets + 1
              /\ set'.maxsockets = set.maxsockets
              /\ set'.sockets[set.numsockets] = last'.r
              /\ \A i \in MemberIndices : set'.sockets[i] = set.sockets[i]]_vars

\* an Add that made a Socket the second member
C26_Witness ==
    /\ last.op = "Add" /\ last.val = 2
    /\ set.numsockets = 2 /\ set.sockets[1] = last.r
    /\ set.sockets[0] # last.r

\* C27: Remove returns -1 and leaves count and members unchanged whenever the
\* socket is not a member, a null socket included; Remove of a member returns
\* the new count, the old count minus one.
C27_RemoveResult ==
    [][last'.op = "Remove" =>
         IF IsMember(last'.r)
         THEN last'.val = set.numsockets - 1 /\ set'.numsockets = set.numsockets - 1
         ELSE last'.val = -1 /\ set' = set]_vars

\* the mask the last select of the last Check left
ReturnedMask == last.calls[Len(last.calls)].arg

\* C28: Check sets ready = 1 on exactly the members whose descriptor is in
\* the mask the native wait returned and changes nothing else of any Socket;
\* no flag goes from 1 to 0; when the wait returns 0 or an error no flag
\* changes.
C28_CheckMarksMasked ==
    [][last'.op = "Check" =>
         /\ \A s \in SockIds :
               sockets'[s] =
                 IF /\ last'.val > 0 /\ IsMember(s)
                    /\ sockets[s].channel \in ReturnedMask'
                 THEN [sockets[s] EXCEPT !.ready = 1]
                 ELSE sockets[s]
         /\ binding' = binding
         /\ set' = set]_vars

\* a Check that found one of two members readable
C28_Witness ==
    /\ last.op = "Check" /\ last.val = 1
    /\ \E s \in SockIds, z \in SockIds :
          /\ IsMember(s) /\ IsMember(z)
          /\ sockets[s].channel \in ReturnedMask /\ sockets[s].ready = 1
          /\ sockets[z].channel \notin ReturnedMask /\ sockets[z].ready = 0

\* C29: a ready flag that is 1 stays 1 across Check, Add, Remove, Bind,
\* Listen, Connect and Accept; only a Send or a Receive on the Socket clears
\* it.
C29_ReadyKeptUntilTransfer ==
    [][\A s \in SockIds :
         /\ (/\ sockets[s].ready = 1
             /\ last'.op \in {"Check", "Add", "Remove", "Bind", "Listen",
                               "Connect", "Accept"}) =>
                sockets'[s].ready = 1
         /\ (sockets[s].ready = 1 /\ last'.op \in {"Send", "Receive"}
                                  /\ last'.r # s) =>
                sockets'[s].ready = 1]_vars

\* C30: after a Send that reached the native layer the ready flag of the
\* Socket is 0.
C30_SendClearsReady ==
    (last.op = "Send" /\ last.calls # <<>>) => sockets[last.r].ready = 0

----------------------------------------------------------------------------
(* Properties of ResolveHost *)

\* the hints of the getaddrinfo of the last call
LastHints == last.calls[1].arg.hints

\* C31: ResolveHost returns the number of candidates the native resolution
\* produced and each entry holds the family, socket type, protocol and
\* address of its candidate, in resolver order; it returns -1 when the
\* resolution fails or yields no candidate; when the address is absent the
\* passive flag is in the hints whatever the flags argument was.
C31_ResolveCopiesCandidates ==
    last.op = "Resolve" =>
        /\ IF last.calls[1].ret # 0 \/ last.cands = <<>>
           THEN last.val = -1
           ELSE /\ last.val = Len(last.cands)
                /\ Len(last.buf) = Len(last.cands)
                /\ \A i \in 1 .. Len(last.cands) :
                      /\ last.buf[i].ai_family = last.cands[i].ai_family
                      /\ last.buf[i].ai_socktype = last.cands[i].ai_socktype
                      /\ last.buf[i].ai_protocol = last.cands[i].ai_protocol
                      /\ last.buf[i].ai_addr = last.cands[i].ai_addr
        /\ last.calls[1].arg.host = NULL_ADDRESS => "AI_PASSIVE" \in LastHints.ai_flags

----------------------------------------------------------------------------
(* Properties of SocketClose *)

\* C32: Closed is terminal. After a Close that released the descriptor the
\* channel of the Socket is no longer valid, and a following Close, Bind or
\* Listen on that Socket issues no native call: the Close does nothing and
\* the Bind or Listen fails as on an invalid channel.
C32_ClosedIsTerminal ==
    [][(last.op = "Close" /\ last.ok) =>
          /\ ~IsSocketValid(sockets[last.r])
          /\ (last'.op \in {"Close", "Bind", "Listen"} /\ last'.r = last.r) =>
                (last'.calls = <<>> /\ ~last'.ok)]_vars

----------------------------------------------------------------------------
(* Properties of the options SocketCreate applies *)

\* the position of call j among the setsockopt calls of its candidate: the
\* number of setsockopt calls that end at j without another call between
RECURSIVE OptionIndex(_, _)
OptionIndex(calls, j) ==
    IF j = 0 \/ calls[j].fn # "setsockopt" THEN 0
    ELSE 1 + OptionIndex(calls, j - 1)

\* the number of options of the array before the sentinel id 0
OptionCount(sockopts) ==
    IF \E i \in 1 .. Len(sockopts) : sockopts[i] = 0
    THEN (CHOOSE i \in 1 .. Len(sockopts) :
             sockopts[i] = 0 /\ \A h \in 1 .. (i - 1) : sockopts[h] # 0) - 1
    ELSE Len(sockopts)

\* C33: within one candidate SocketCreate applies the configured options in
\* list order up to the sentinel id 0: the k-th setsockopt after a socket
\* call is for option k, and every option before the sentinel is reached
\* unless one failed. The first option that fails ends the call: no option
\* and no candidate follows it, SocketCreate fails and the result status is
\* RESULT_FAILURE.
C33_OptionsInOrder ==
    last.op = "Create" =>
        \A j \in 1 .. Len(last.calls) :
            LET c == last.calls[j]
                k == OptionIndex(last.calls, j)
                n == OptionCount(last.cfg.sockopts)
            IN  /\ c.fn = "setsockopt" =>
                      /\ k <= n
                      /\ c.arg = last.cfg.sockopts[k]
                      /\ c.ret = -1 => /\ j = Len(last.calls)
                                       /\ ~last.ok
                                       /\ rstatus[last.r] = RESULT_FAILURE
                \* a candidate whose channel opened gets every option
                /\ (c.fn = "socket" /\ c.ret # INVALID_SOCKET) =>
                      \/ \A h \in 1 .. n : /\ j + h <= Len(last.calls)
                                           /\ OptionIndex(last.calls, j + h) = h
                                           /\ last.calls[j + h].ret = 0
                      \/ \E h \in 1 .. n : /\ j + h = Len(last.calls)
                                           /\ OptionIndex(last.calls, j + h) = h
                                           /\ last.calls[j + h].ret = -1

\* the second of two different options fails for the first of two candidates
C33_Witness ==
    /\ last.op = "Create"
    /\ Len(last.cands) = 2
    /\ Len(last.calls) = 4
    /\ last.calls[2].fn = "socket"
    /\ last.calls[3].fn = "setsockopt" /\ last.calls[3].ret = 0
    /\ last.calls[4].fn = "setsockopt" /\ last.calls[4].ret = -1
    /\ last.calls[3].arg # last.calls[4].arg
    /\ rstatus[last.r] = RESULT_FAILURE

----------------------------------------------------------------------------
(* Properties of SocketSetHints *)

\* C34: the hints SocketCreate resolves with carry the numeric-host flag
\* exactly when config.host is an IPv4 or IPv6 literal, and the passive flag
\* exactly when the socket is a server or is not UDP; the flags do not depend
\* on each other, so a literal host on a TCP socket or a UDP server has both.
C34_HintFlagsIndependent ==
    last.op = "Create" =>
        LET flags == SocketSetHints(last.cfg).ai_flags
        IN  /\ "AI_NUMERICHOST" \in flags <=>
                  (IsIPv4Address(last.cfg.host) \/ IsIPv6Address(last.cfg.host))
            /\ "AI_PASSIVE" \in flags <=>
                  (last.cfg.server \/ last.cfg.type # SOCKET_UDP)

----------------------------------------------------------------------------
(* Properties of the ready flag and the guard of SocketReceive *)

\* the step is a SocketReceive on the Socket s
ReceiveOn(s) == last'.op = "Receive" /\ last'.r = s /\ nops' = nops + 1

\* C35: a TCP Receive on a Socket that is not a server sets the ready flag of
\* the Socket to 0 whenever it returns, whether the native receive gave data,
\* the end of the stream or an error; a UDP Receive sets it to 0 when it has
\* taken a datagram.
C35_ReceiveClearsReady ==
    [][\A s \in SockIds :
          ReceiveOn(s) =>
            /\ (sockets[s].type = SOCKET_TCP /\ ~sockets[s].isServer) =>
                  sockets'[s].ready = 0
            /\ (sockets[s].type = SOCKET_UDP /\ last'.calls[1].ret >= 0) =>
                  sockets'[s].ready = 0]_vars

\* a TCP client that was added to the set has received bytes and is not ready
C35_Witness ==
    /\ last.op = "Receive"
    /\ sockets[last.r].type = SOCKET_TCP /\ ~sockets[last.r].isServer
    /\ set.alloc /\ set.numsockets = 1
    /\ last.val > 0
    /\ sockets[last.r].ready = 0

\* C36: a Receive on a TCP server Socket is rejected: no native receive is
\* issued, it returns 0, the caller's buffer is as it was and so is the ready
\* flag of the Socket.
C36_ServerReceiveRejected ==
    [][\A s \in SockIds :
          (ReceiveOn(s) /\ sockets[s].isServer /\ sockets[s].type = SOCKET_TCP) =>
            /\ last'.calls = <<>>
            /\ last'.val = 0
            /\ last'.buf = RecvBuffer(Len(last'.buf) - 1)
            /\ sockets'[s].ready = sockets[s].ready]_vars

\* a TCP server that a Check marked ready has been refused a Receive
C36_Witness ==
    /\ last.op = "Receive"
    /\ sockets[last.r].isServer /\ sockets[last.r].type = SOCKET_TCP
    /\ sockets[last.r].ready = 1
    /\ last.calls = <<>>

----------------------------------------------------------------------------
(* Properties of the TCP loop of SocketSend *)

\* C37: the TCP loop of SocketSend terminates when the native send is
\* interrupted finitely often (at most MaxIntr times in one call): a call
\* that has entered the loop leaves it, also when a native send takes 0 bytes
\* with bytes left after an earlier native send of the call was interrupted.
C37_SendLoopTerminates ==
    (io.loop.pc = "send") ~> (io.loop.pc = "done")

----------------------------------------------------------------------------
(* Properties of the buffer of SocketReceive *)

\* C38: a TCP Receive writes only to the positions 0 .. maxlen - 1 of the
\* caller's buffer: whatever length from 1 to maxlen the native receive
\* returns, the null terminator is within the maxlen bytes, so the byte that
\* follows the buffer in memory is as it was.
C38_ReceiveWithinBuffer ==
    (last.op = "Receive" /\ sockets[last.r].type = SOCKET_TCP) =>
        last.buf[Len(last.buf)] = RecvBuffer(Len(last.buf) - 1)[Len(last.buf)]

----------------------------------------------------------------------------
(* Properties of SocketConnect and the host it is given *)

\* C39: SocketConnect returns success, with result status RESULT_SUCCESS,
\* only if a native connect was issued and it succeeded or reported
\* would-block; when config.host is neither an IPv4 nor an IPv6 literal
\* SocketConnect does not report success.
C39_ConnectSuccessNeedsConnect ==
    last.op = "Connect" =>
        /\ (last.ok \/ rstatus[last.r] = RESULT_SUCCESS) =>
              /\ Len(last.calls) = 1
              /\ last.calls[1].fn = "connect"
              /\ last.calls[1].ret = 0 \/ last.calls[1].err = WSAEWOULDBLOCK
        /\ (~IsIPv4Address(last.cfg.host) /\ ~IsIPv6Address(last.cfg.host)) =>
              (~last.ok /\ rstatus[last.r] # RESULT_SUCCESS)

----------------------------------------------------------------------------
(* Properties of the members of a SocketSet *)

\* C40: a SocketSet never holds the same Socket twice; after a Remove that
\* returned a count of 0 or more the Socket is no member any more, and a
\* following Check leaves its ready flag alone; a Remove keeps the order of
\* the members that remain.
C40_MembersDistinct ==
    [][/\ set'.alloc =>
            \A i, j \in 0 .. (set'.numsockets - 1) :
                i # j => set'.sockets[i] # set'.sockets[j]
       /\ (last'.op = "Remove" /\ last'.r # NULL_SOCKET /\ last'.val >= 0
              /\ nops' = nops + 1) =>
            /\ \A i \in 0 .. (set'.numsockets - 1) : set'.sockets[i] # last'.r
            /\ \E k \in 0 .. (set.numsockets - 1) :
                  /\ set.sockets[k] = last'.r
                  /\ \A i \in 0 .. (set'.numsockets - 1) :
                        set'.sockets[i] = set.sockets[IF i < k THEN i ELSE i + 1]
       /\ (last.op = "Remove" /\ last.r # NULL_SOCKET /\ last.val >= 0
              /\ last'.op = "Check") =>
            sockets'[last.r].ready = sockets[last.r].ready]_vars

====
